---- MODULE Spec2Model ----
(***************************************************************************)
(* Verification model of PyCTrace.                                         *)
(*                                                                         *)
(*   SpecTrack : the statement slicer of src/C/py_call_extractor.py        *)
(*               (_extract_python_call_context, _extract_related_statements)*)
(*   SpecMerge : the call-graph merger of src/CallGraph/merger.py          *)
(*               (merge_python_c_call_graph)                               *)
(*   SpecResolve : the registration resolver of                            *)
(*               src/C/py_module_extractor.py (_merge_results) and         *)
(*               src/C/python_registration_extractor.py                    *)
(*   SpecRegistry : the function registry and the two-phase run of         *)
(*               src/C/py_call_extractor.py (parse_files)                  *)
(*   SpecDetect : the foreign-callable function detector of                *)
(*               src/C/py_module_extractor.py (_is_python_c_api_function)  *)
(*   SpecCollect : the call collection of src/C/c_parser.py and            *)
(*               src/Python/python_parser.py (_extract_function_calls)     *)
(*   SpecBuild : the native-side graph of src/C/c_parser.py                *)
(*               (build_python_related_call_graph)                         *)
(*                                                                         *)
(* Each specification leaves the variables of the other components at      *)
(* their initial values.                                                   *)
(***************************************************************************)
EXTENDS Integers, Sequences, FiniteSets, TLC

VARIABLES
    \* ---- slicer (py_call_extractor.py) ----
    nodes,              \* ddg.nodes: sequence of [line, defs, uses]; a node's id is its index
    call_line,          \* call_node.start_point[0] + 1
    initial_vars,       \* the seed set handed to _extract_related_statements
    vars_to_track,      \* the tracked variable set of the expansion loop
    added_statements,   \* set of LINES already taken
    context,            \* list of collected statements
    changed,            \* the while-loop flag
    idx,                \* position of the for loop in ddg.nodes
    tpc,                \* control point of the slicer
    entry,              \* "call_site": via _extract_python_call_context; "direct": the
                        \* expansion called with a seed set of the caller's choice
    passes,             \* observer: passes of the for loop started so far
    expansions,         \* observer: passes in which at least one statement was added
    added_in_pass,      \* observer: the current pass has added a statement
    \* ---- merger (CallGraph/merger.py) ----
    c_data,             \* c_call_graph_data: [registered, functions, call_graph]
    py_data,            \* python_call_graph_data: [functions, call_graph]
    py_name_to_c_func,  \* dict: registered name -> native function
    unified_node_names, \* dict: native name or registered name -> "c(p)"
    merged_call_graph,  \* dict: node -> callees
    node_types,         \* dict: node -> kind
    c_to_python_calls,  \* list of (caller, callee)
    python_to_c_calls,  \* list of (caller, callee)
    raised,             \* a dict lookup failed (KeyError)
    mpc,                \* control point of the merger
    \* ---- registration resolver (py_module_extractor.py, ----
    \* ---- python_registration_extractor.py)              ----
    results,            \* the per-file component lists handed to _merge_results
    merged,             \* merged: the component lists of all files
    method_def_map,     \* dict: table name -> method table
    module_def_map,     \* dict: descriptor name -> module descriptor
    c_function_map,     \* dict: function name -> foreign-callable native function
    module_chains,      \* merged['module_chains']
    init_i,             \* position of the loop over merged['py_init_funcs']
    method_definitions, \* structured_info['method_definitions']
    module_definitions, \* structured_info['module_definitions']
    rentry,             \* "merge": CCodeParser._merge_results; "extract":
                        \* PythonRegistrationExtractor on the same declarations
    rpc,                \* control point of the resolver
    \* ---- function registry (py_call_extractor.py) ----
    file_paths,         \* the argument of parse_files
    disk,               \* path -> the functions defined in the file, or Missing
    parsed_files,       \* list of <<path, content>> in dict insertion order
    all_functions,      \* self.all_functions: name -> list of facts
    all_calls,          \* the call sites returned by _analyze_all_functions
    open_i,             \* position of the loop over file_paths
    reg_i,              \* position of the loop over parsed_files
    todo,               \* the facts still to analyze, in registry order
    run,                \* number of the parse_files call on this extractor
    first_run,          \* observer: the registry at the end of the first call
    started,            \* observer: the registry when the analysis started
    ddg_built,          \* observer: the facts construct_ddg was called for
    failed,             \* parse_files raised
    gpc,                \* control point of parse_files
    \* ---- foreign-callable function detector (py_module_extractor.py) ----
    fdefs,              \* the function_definition nodes of the file, in traversal order
    scan_i,             \* position of the loop over the nodes
    py_c_functions,     \* the names collected by _extract_all_py_c_functions
    dpc,                \* control point of the detector
    \* ---- call collection (c_parser.py, python_parser.py) ----
    tree,               \* the syntax tree: node id -> [kind, name, children]
    frames,             \* the activations of traverse: <<node, parent_function, next child>>
    current_function,   \* the nonlocal current_function (None or Some(name))
    calls,              \* the list of (caller, callee, call node)
    cpc,                \* control point of the collection
    \* ---- native-side graph (c_parser.py) ----
    source,             \* the facts of the file handed to build_python_related_call_graph
    registered_c_functions, \* dict: native function -> registered name
    call_info,          \* the dict returned by extract_python_calls
    python_related_functions, \* the node set of the graph
    call_graph,         \* dict: caller -> callees
    build_raised,       \* the name of the exception that ended the build, or "none"
    bpc                 \* control point of the build

trackVars == <<nodes, call_line, initial_vars, vars_to_track, added_statements,
               context, changed, idx, tpc, entry, passes, expansions, added_in_pass>>

mergeVars == <<c_data, py_data, py_name_to_c_func, unified_node_names, merged_call_graph,
               node_types, c_to_python_calls, python_to_c_calls, raised, mpc>>

resolveVars == <<results, merged, method_def_map, module_def_map, c_function_map,
                 module_chains, init_i, method_definitions, module_definitions,
                 rentry, rpc>>

registryVars == <<file_paths, disk, parsed_files, all_functions, all_calls, open_i,
                  reg_i, todo, run, first_run, started, ddg_built, failed, gpc>>

detectVars == <<fdefs, scan_i, py_c_functions, dpc>>

collectVars == <<tree, frames, current_function, calls, cpc>>

buildVars == <<source, registered_c_functions, call_info, python_related_functions,
               call_graph, build_raised, bpc>>

parserVars == <<detectVars, collectVars, buildVars>>

vars == <<trackVars, mergeVars, resolveVars, registryVars, parserVars>>

----------------------------------------------------------------------------
(* Bounds of the slicer model *)

MaxStmts == 2

VarNames == {"fn", "args", "ret"}

Lines == {1, 2}

\* def and use sets of one statement
DefSets == {{}} \cup {{v} : v \in VarNames}

UseSets == {{}} \cup {{v} : v \in VarNames}

StmtNodes == [line : Lines, defs : DefSets, uses : UseSets]

\* every dependency graph of at most MaxStmts statement nodes, in any order
DDGs == UNION {[1..n -> StmtNodes] : n \in 0..MaxStmts}

----------------------------------------------------------------------------
(* Pure helpers of the slicer *)

\* defs | uses  (lines 220, 260)
AllVarsOf(node) == node.defs \cup node.uses

\* indexes of the DDG nodes located at a line
NodesAtLine(ns, ln) == {i \in 1..Len(ns) : ns[i].line = ln}

Min(S) == CHOOSE x \in S : \A y \in S : x <= y

\* lines 215-221: the loop over ddg.nodes stops (break) at the FIRST node whose
\* line is the call line and takes that node's defs | uses; no node: empty set
SeedVars(ns, ln) ==
    IF NodesAtLine(ns, ln) = {} THEN {}
    ELSE AllVarsOf(ns[Min(NodesAtLine(ns, ln))])

\* a statement is taken as soon as it mentions any variable at all
RelatedAnyVar(all_vars, tracked) == all_vars # {}

\* line 262: `if all_vars & vars_to_track`
Related(all_vars, tracked) == (all_vars \cap tracked) # {}

\* the line is never recorded as taken
MarkNothing(added, ln) == added

\* line 270: added_statements.add(node.line)
MarkVisited(added, ln) == added \cup {ln}

\* the tracked set is overwritten instead of extended
OverwriteTracked(tracked, all_vars) == all_vars

\* line 273: vars_to_track.update(all_vars)
UpdateTracked(tracked, all_vars) == tracked \cup all_vars

\* lines 263-269: the dict appended to context (text and type are the node's own,
\* kept here as the node's index)
ContextEntry(ns, i) ==
    [node |-> i, line |-> ns[i].line, defs |-> ns[i].defs, uses |-> ns[i].uses]

\* list.sort(key=line) is stable: insert each element after the last element
\* whose key is not greater
RECURSIVE InsertByLine(_, _)
InsertByLine(sorted, e) ==
    IF sorted = <<>> THEN <<e>>
    ELSE IF sorted[Len(sorted)].line <= e.line THEN Append(sorted, e)
    ELSE Append(InsertByLine(SubSeq(sorted, 1, Len(sorted) - 1), e), sorted[Len(sorted)])

RECURSIVE SortFrom(_, _, _)
SortFrom(acc, s, i) ==
    IF i > Len(s) THEN acc ELSE SortFrom(InsertByLine(acc, s[i]), s, i + 1)

\* the list is returned in discovery order
NoSort(s) == s

\* lines 225 and 278: context.sort(key=lambda x: x['line'])
SortByLine(s) == SortFrom(<<>>, s, 1)

----------------------------------------------------------------------------
(* The slicer as a state machine *)

\* the slicer is not running
TrackIdle ==
    /\ nodes = <<>>
    /\ call_line = 0
    /\ initial_vars = {}
    /\ vars_to_track = {}
    /\ added_statements = {}
    /\ context = <<>>
    /\ changed = FALSE
    /\ idx = 0
    /\ tpc = "idle"
    /\ entry = "none"
    /\ passes = 0
    /\ expansions = 0
    /\ added_in_pass = FALSE

\* the merger is not running
MergeIdle ==
    /\ c_data = <<>>
    /\ py_data = <<>>
    /\ py_name_to_c_func = <<>>
    /\ unified_node_names = <<>>
    /\ merged_call_graph = <<>>
    /\ node_types = <<>>
    /\ c_to_python_calls = {}
    /\ python_to_c_calls = {}
    /\ raised = FALSE
    /\ mpc = "idle"

\* the registration resolver is not running
ResolveIdle ==
    /\ results = <<>>
    /\ merged = <<>>
    /\ method_def_map = <<>>
    /\ module_def_map = <<>>
    /\ c_function_map = <<>>
    /\ module_chains = <<>>
    /\ init_i = 0
    /\ method_definitions = <<>>
    /\ module_definitions = <<>>
    /\ rentry = "none"
    /\ rpc = "idle"

\* parse_files is not running
RegistryIdle ==
    /\ file_paths = <<>>
    /\ disk = <<>>
    /\ parsed_files = <<>>
    /\ all_functions = <<>>
    /\ all_calls = <<>>
    /\ open_i = 0
    /\ reg_i = 0
    /\ todo = <<>>
    /\ run = 0
    /\ first_run = <<>>
    /\ started = <<>>
    /\ ddg_built = <<>>
    /\ failed = FALSE
    /\ gpc = "idle"

\* the detector is not running
DetectIdle ==
    /\ fdefs = <<>>
    /\ scan_i = 0
    /\ py_c_functions = <<>>
    /\ dpc = "idle"

\* the call collection is not running
CollectIdle ==
    /\ tree = <<>>
    /\ frames = <<>>
    /\ current_function = <<>>
    /\ calls = <<>>
    /\ cpc = "idle"

\* build_python_related_call_graph is not running
BuildIdle ==
    /\ source = <<>>
    /\ registered_c_functions = <<>>
    /\ call_info = <<>>
    /\ python_related_functions = {}
    /\ call_graph = <<>>
    /\ build_raised = "none"
    /\ bpc = "idle"

\* none of the native-side parsers is running
ParserIdle == DetectIdle /\ CollectIdle /\ BuildIdle

InitTrack ==
    /\ nodes \in DDGs
    /\ \/ /\ entry = "call_site"
          /\ call_line \in Lines
          /\ initial_vars = {}
          /\ tpc = "seed"
       \/ /\ entry = "direct"
          /\ call_line = 0
          /\ initial_vars \in SUBSET VarNames
          /\ tpc = "enter"
    /\ vars_to_track = {}
    /\ added_statements = {}
    /\ context = <<>>
    /\ changed = FALSE
    /\ idx = 0
    /\ passes = 0
    /\ expansions = 0
    /\ added_in_pass = FALSE
    /\ MergeIdle
    /\ ResolveIdle
    /\ RegistryIdle
    /\ ParserIdle

\* _extract_python_call_context, lines 215-221
Seed ==
    /\ tpc = "seed"
    /\ initial_vars' = SeedVars(nodes, call_line)
    /\ tpc' = "enter"
    /\ UNCHANGED <<mergeVars, resolveVars, registryVars, parserVars>>
    /\ UNCHANGED <<entry, nodes, call_line, vars_to_track, added_statements, context,
                   changed, idx, passes, expansions, added_in_pass>>

\* _extract_related_statements, lines 244-248
Enter ==
    /\ tpc = "enter"
    /\ vars_to_track' = initial_vars
    /\ added_statements' = {}
    /\ context' = <<>>
    /\ changed' = TRUE
    /\ tpc' = "while"
    /\ UNCHANGED <<mergeVars, resolveVars, registryVars, parserVars>>
    /\ UNCHANGED <<entry, nodes, call_line, initial_vars, idx, passes, expansions, added_in_pass>>

\* lines 249-250: `while changed: changed = False`, then the for loop starts
WhileEnter ==
    /\ tpc = "while"
    /\ changed
    /\ changed' = FALSE
    /\ idx' = 1
    /\ passes' = passes + 1
    /\ added_in_pass' = FALSE
    /\ tpc' = "for"
    /\ UNCHANGED <<mergeVars, resolveVars, registryVars, parserVars>>
    /\ UNCHANGED <<entry, nodes, call_line, initial_vars, vars_to_track, added_statements,
                   context, expansions>>

\* line 249 with changed false: the loop is left
WhileExit ==
    /\ tpc = "while"
    /\ ~changed
    /\ tpc' = "sort"
    /\ UNCHANGED <<mergeVars, resolveVars, registryVars, parserVars>>
    /\ UNCHANGED <<entry, nodes, call_line, initial_vars, vars_to_track, added_statements,
                   context, changed, idx, passes, expansions, added_in_pass>>

\* lines 255-256: the node's line was taken before: continue
ForSkipVisited ==
    /\ tpc = "for"
    /\ idx <= Len(nodes)
    /\ nodes[idx].line \in added_statements
    /\ idx' = idx + 1
    /\ UNCHANGED <<mergeVars, resolveVars, registryVars, parserVars>>
    /\ UNCHANGED <<entry, nodes, call_line, initial_vars, vars_to_track, added_statements,
                   context, changed, tpc, passes, expansions, added_in_pass>>

\* lines 258-262 with an empty intersection: nothing happens
ForSkipUnrelated ==
    /\ tpc = "for"
    /\ idx <= Len(nodes)
    /\ nodes[idx].line \notin added_statements
    /\ ~Related(AllVarsOf(nodes[idx]), vars_to_track)
    /\ idx' = idx + 1
    /\ UNCHANGED <<mergeVars, resolveVars, registryVars, parserVars>>
    /\ UNCHANGED <<entry, nodes, call_line, initial_vars, vars_to_track, added_statements,
                   context, changed, tpc, passes, expansions, added_in_pass>>

\* lines 262-276: the statement is taken
ForAdd ==
    /\ tpc = "for"
    /\ idx <= Len(nodes)
    /\ nodes[idx].line \notin added_statements
    /\ Related(AllVarsOf(nodes[idx]), vars_to_track)
    /\ context' = Append(context, ContextEntry(nodes, idx))
    /\ added_statements' = MarkVisited(added_statements, nodes[idx].line)
    /\ vars_to_track' = UpdateTracked(vars_to_track, AllVarsOf(nodes[idx]))
    /\ changed' = (changed \/ Cardinality(vars_to_track') > Cardinality(vars_to_track))
    /\ expansions' = IF added_in_pass THEN expansions ELSE expansions + 1
    /\ added_in_pass' = TRUE
    /\ idx' = idx + 1
    /\ UNCHANGED <<mergeVars, resolveVars, registryVars, parserVars>>
    /\ UNCHANGED <<entry, nodes, call_line, initial_vars, tpc, passes>>

\* the for loop is exhausted: back to the while test
ForEnd ==
    /\ tpc = "for"
    /\ idx > Len(nodes)
    /\ tpc' = "while"
    /\ UNCHANGED <<mergeVars, resolveVars, registryVars, parserVars>>
    /\ UNCHANGED <<entry, nodes, call_line, initial_vars, vars_to_track, added_statements,
                   context, changed, idx, passes, expansions, added_in_pass>>

\* line 278-279: context.sort(...); return context
SortAndReturn ==
    /\ tpc = "sort"
    /\ context' = SortByLine(context)
    /\ tpc' = IF entry = "call_site" THEN "outer_sort" ELSE "done"
    /\ UNCHANGED <<mergeVars, resolveVars, registryVars, parserVars>>
    /\ UNCHANGED <<entry, nodes, call_line, initial_vars, vars_to_track, added_statements,
                   changed, idx, passes, expansions, added_in_pass>>

\* _extract_python_call_context, lines 225-232: sort again and return
OuterSort ==
    /\ tpc = "outer_sort"
    /\ context' = SortByLine(context)
    /\ tpc' = "done"
    /\ UNCHANGED <<mergeVars, resolveVars, registryVars, parserVars>>
    /\ UNCHANGED <<entry, nodes, call_line, initial_vars, vars_to_track, added_statements,
                   changed, idx, passes, expansions, added_in_pass>>

NextTrack ==
    \/ Seed
    \/ Enter
    \/ WhileEnter
    \/ WhileExit
    \/ ForSkipVisited
    \/ ForSkipUnrelated
    \/ ForAdd
    \/ ForEnd
    \/ SortAndReturn
    \/ OuterSort

SpecTrack == InitTrack /\ [][NextTrack]_vars

\* the slicer is straight-line sequential code: an enabled step is taken
FairSpecTrack == SpecTrack /\ WF_vars(NextTrack)

----------------------------------------------------------------------------
(* Properties of the slicer *)

\* union of the def/use variables of all statements of the graph
GraphVars(ns) == UNION {AllVarsOf(ns[i]) : i \in 1..Len(ns)}

\* the nodes present in a context list
NodesIn(ctx) == {ctx[k].node : k \in 1..Len(ctx)}

\* C1: for every dependency graph and seed set the expansion loop terminates,
\* and the number of expansion rounds (passes over the statement list in which
\* at least one statement is added) never exceeds the number of statements.
C1_TerminatesWithinStatements ==
    /\ <>(tpc = "done")
    /\ [](expansions <= Len(nodes))

\* C1 witness: a finished run over at least two statements that needed as many
\* expansion rounds as there are statements, plus the closing pass.
C1_Witness ==
    /\ tpc = "done"
    /\ Len(nodes) >= 2
    /\ expansions = Len(nodes)
    /\ passes = Len(nodes) + 1

\* C2: when the loop has halted, no statement left out of the result has a
\* def/use set that intersects the final tracked variable set.
C2_FixedPoint ==
    tpc = "done" =>
        \A i \in 1..Len(nodes) :
            i \notin NodesIn(context) => ~((AllVarsOf(nodes[i]) \cap vars_to_track) # {})

\* C3: the tracked set only grows from one state to the next, and it is always
\* contained in the seed set united with the def/use variables of the statements.
C3_TrackedMonotoneBounded ==
    /\ [][vars_to_track \subseteq vars_to_track']_vars
    /\ [](vars_to_track \subseteq (initial_vars \cup GraphVars(nodes)))

\* C3 witness: inside the loop the tracked set has strictly outgrown a non-empty seed.
C3_Witness ==
    /\ tpc = "for"
    /\ initial_vars # {}
    /\ initial_vars \subseteq vars_to_track
    /\ initial_vars # vars_to_track

\* C4: a statement enters the slice only at a moment when its def/use set
\* intersects the tracked set, and every statement of the slice intersects the
\* tracked set (so a statement that never intersects it is never in the slice).
C4_SliceValidity ==
    /\ [][Len(context') > Len(context) =>
            ((context'[Len(context')].defs \cup context'[Len(context')].uses)
                \cap vars_to_track) # {}]_vars
    /\ [](\A k \in 1..Len(context) :
            ((context[k].defs \cup context[k].uses) \cap vars_to_track) # {})

\* C4 witness: a finished slice that took some statements and left a statement
\* with variables out.
C4_Witness ==
    /\ tpc = "done"
    /\ Len(context) >= 1
    /\ \E i \in 1..Len(nodes) : i \notin NodesIn(context) /\ AllVarsOf(nodes[i]) # {}

\* C5: the seed set of a call site is the union of the def and use sets of all
\* dependency-graph statements located at the call's source line.
C5_SeedIsUnionAtCallLine ==
    (entry = "call_site" /\ tpc # "seed") =>
        initial_vars = UNION {AllVarsOf(nodes[i]) : i \in NodesAtLine(nodes, call_line)}

\* C6: the context_statements returned for a call site are in ascending order
\* of source line, whatever the order of discovery.
C6_SortedByLine ==
    (entry = "call_site" /\ tpc = "done") =>
        \A i, j \in 1..Len(context) : i < j => context[i].line <= context[j].line

\* C6 witness: a returned slice whose statements stand in the opposite order of
\* their enumeration in the graph.
C6_Witness ==
    /\ entry = "call_site"
    /\ tpc = "done"
    /\ Len(context) >= 2
    /\ context[1].line < context[2].line
    /\ context[1].node > context[2].node

----------------------------------------------------------------------------
(* The call-graph merger: names *)

(* A name is a sequence of tokens: identifiers and the punctuation marks     *)
(* "(", ")" and ".".  "add" is <<"add">>, "add()" is <<"add", "(", ")">>,     *)
(* "m.add" is <<"m", ".", "add">>, "c_add(add)" is <<"c_add","(","add",")">>. *)

Bare(x) == <<x>>

\* _build_python_call_representation (python_call_extractor.py:141-150): the
\* callee of a foreign call is written "name(arguments)"; the arguments play no
\* part in the merge
CallRepr(x) == <<x, "(", ")">>

Dotted(m, x) == <<m, ".", x>>

HasTok(n, t) == \E i \in 1..Len(n) : n[i] = t

FirstTok(n, t) == Min({i \in 1..Len(n) : n[i] = t})

LastTok(n, t) == CHOOSE i \in 1..Len(n) :
                    /\ n[i] = t
                    /\ \A j \in 1..Len(n) : n[j] = t => j <= i

\* callee.split('(')[0] if '(' in callee else callee      (lines 79, 131)
ParenHead(n) == IF HasTok(n, "(") THEN SubSeq(n, 1, FirstTok(n, "(") - 1) ELSE n

\* callee.split('.')[-1]                                  (lines 108-109)
LastDotPart(n) == IF HasTok(n, ".") THEN SubSeq(n, LastTok(n, ".") + 1, Len(n)) ELSE n

\* f"{c_func}({py_name})"                                 (lines 53-54)
FormatUnified(c, p) == c \o <<"(">> \o p \o <<")">>

\* dict[k] = v
Put(d, k, v) == [x \in (DOMAIN d) \cup {k} |-> IF x = k THEN v ELSE d[x]]

\* dict.get(k, default)
Get(d, k, default) == IF k \in DOMAIN d THEN d[k] ELSE default

\* line 47: {py_name: c_func for c_func, py_name in registered.items()}, in
\* the dict's insertion order: a later registration of the same name wins
RECURSIVE PyNameToCFunc(_, _, _)
PyNameToCFunc(d, reg, i) ==
    IF i > Len(reg) THEN d
    ELSE PyNameToCFunc(Put(d, reg[i][2], reg[i][1]), reg, i + 1)

\* lines 51-54: both the native name and the registered name are mapped to
\* "c(p)", registration after registration
RECURSIVE UnifiedNames(_, _, _)
UnifiedNames(d, reg, i) ==
    IF i > Len(reg) THEN d
    ELSE UnifiedNames(
            Put(Put(d, reg[i][1], FormatUnified(reg[i][1], reg[i][2])),
                reg[i][2], FormatUnified(reg[i][1], reg[i][2])),
            reg, i + 1)

\* the native names of a registration table (the keys of registered_c_functions)
RegisteredCFuncs(reg) == {reg[i][1] : i \in 1..Len(reg)}

\* lines 77-91: the target of a native-side callee
CTarget(unified, py_functions, callee) ==
    IF ParenHead(callee) \in py_functions
    THEN Get(unified, ParenHead(callee), ParenHead(callee))
    ELSE Get(unified, callee, callee)

\* lines 101-115: the target of an interpreter-side callee
PyTarget(unified, py2c, callee) ==
    IF callee \in DOMAIN py2c THEN Get(unified, callee, callee)
    ELSE IF HasTok(callee, ".")
         THEN IF LastDotPart(callee) \in DOMAIN py2c
              THEN Get(unified, LastDotPart(callee), callee)
              ELSE callee
         ELSE Get(unified, callee, callee)

\* lines 105 and 111 index unified_node_names without a default: KeyError when
\* the key is missing
PyTargetRaises(unified, py2c, callee) ==
    \/ callee \in DOMAIN py2c /\ callee \notin DOMAIN unified
    \/ /\ callee \notin DOMAIN py2c
       /\ HasTok(callee, ".")
       /\ LastDotPart(callee) \in DOMAIN py2c
       /\ LastDotPart(callee) \notin DOMAIN unified

\* a node that is in no table is taken for a native function
NodeTypeDefaultNative(node, reg_c, c_functions, py_functions) ==
    IF ParenHead(node) \in reg_c THEN "registered_c_function"
    ELSE "c_function"

\* lines 129-148: the kind of a merged node
NodeType(node, reg_c, c_functions, py_functions) ==
    IF ParenHead(node) \in reg_c THEN "registered_c_function"
    ELSE IF ParenHead(node) \in c_functions \/ node \in c_functions THEN "c_function"
    ELSE IF ParenHead(node) \in py_functions \/ node \in py_functions THEN "python_function"
    ELSE "python_function"

\* lines 85-86, 90-91, 117-118: append the targets that are not yet listed
\* (the adjacency lists hold no duplicates; their order is not observed)
AddTargets(old, new) == old \cup new

----------------------------------------------------------------------------
(* The call-graph merger: inputs *)

MaxReg == 2

MaxEdges == 1

\* native function names
CNames == {Bare("c_add"), Bare("c_run")}

\* names a native function can be registered under; "c_run" is also the name
\* of a native function
RegNames == {Bare("add"), Bare("c_run")}

\* names of functions defined on the interpreter side; "add" is also a
\* registered name
PyFuncNames == {Bare("main"), Bare("add")}

\* all subsets of S of at most k elements
RECURSIVE SubsetsUpTo(_, _)
SubsetsUpTo(S, k) ==
    IF k = 0 THEN {{}}
    ELSE SubsetsUpTo(S, k - 1) \cup
         {T \cup {x} : T \in SubsetsUpTo(S, k - 1), x \in S}

\* registration tables: at most MaxReg entries <<c_function, python_name>>, one
\* per native function (registered_c_functions is a dict keyed by c_function),
\* in insertion order
RegTables ==
    {r \in UNION {[1..n -> CNames \X RegNames] : n \in 0..MaxReg} :
        \A i, j \in 1..Len(r) : i # j => r[i][1] # r[j][1]}

\* c_parser.py:340-361: a native caller's callees are related native functions
\* and the "name(args)" texts of its foreign calls
CCallees(c_functions) ==
    c_functions \cup {CallRepr(x[1]) : x \in PyFuncNames \cup RegNames}

\* interpreter-side callees: plain names and module-dotted names
PyCallees ==
    PyFuncNames \cup RegNames \cup CNames
        \cup {Dotted("m", x[1]) : x \in PyFuncNames \cup RegNames}

\* a dict caller -> callees from a set of edges, with a key for every caller
GraphOf(callers, edges) ==
    [f \in callers |-> {e[2] : e \in {d \in edges : d[1] = f}}]

\* c_parser.py:309-361: python_related_functions is the registered functions
\* united with the functions that hold foreign calls, and call_graph has a key
\* for each of them
CData ==
    UNION { UNION {
        { [registered |-> reg,
           functions  |-> RegisteredCFuncs(reg) \cup calling,
           call_graph |-> GraphOf(RegisteredCFuncs(reg) \cup calling, edges)]
          : edges \in SubsetsUpTo((RegisteredCFuncs(reg) \cup calling)
                                    \X CCallees(RegisteredCFuncs(reg) \cup calling),
                                  MaxEdges) }
        : calling \in SUBSET CNames }
      : reg \in RegTables }

\* python_parser.py:95-103, 162-171: call_graph has a key for every function;
\* an empty result ({'functions': [], 'calls': [], 'call_graph': {}}) when the
\* code string is empty
PyData ==
    UNION {
        { [functions |-> fs, call_graph |-> GraphOf(fs, edges)]
          : edges \in SubsetsUpTo(fs \X PyCallees, MaxEdges) }
        : fs \in SUBSET PyFuncNames }

----------------------------------------------------------------------------
(* The call-graph merger as a state machine *)

InitMerge ==
    /\ c_data \in CData
    /\ py_data \in PyData
    /\ py_name_to_c_func = <<>>
    /\ unified_node_names = <<>>
    /\ merged_call_graph = <<>>
    /\ node_types = <<>>
    /\ c_to_python_calls = {}
    /\ python_to_c_calls = {}
    /\ raised = FALSE
    /\ mpc = "maps"
    /\ TrackIdle
    /\ ResolveIdle
    /\ RegistryIdle
    /\ ParserIdle

\* lines 46-54: the two name maps
BuildMaps ==
    /\ mpc = "maps"
    /\ py_name_to_c_func' = PyNameToCFunc(<<>>, c_data.registered, 1)
    /\ unified_node_names' = UnifiedNames(<<>>, c_data.registered, 1)
    /\ mpc' = "nodes"
    /\ UNCHANGED <<c_data, py_data, merged_call_graph, node_types, c_to_python_calls,
                   python_to_c_calls, raised>>
    /\ UNCHANGED <<trackVars, resolveVars, registryVars, parserVars>>

\* lines 56-69: a node per native function under its unified name, then a node
\* per interpreter function that is not a registered name
AddNodes ==
    /\ mpc = "nodes"
    /\ merged_call_graph' =
         [n \in {Get(unified_node_names, f, f) : f \in c_data.functions}
                \cup {f \in py_data.functions : f \notin DOMAIN py_name_to_c_func}
            |-> {}]
    /\ mpc' = "c_edges"
    /\ UNCHANGED <<c_data, py_data, py_name_to_c_func, unified_node_names, node_types,
                   c_to_python_calls, python_to_c_calls, raised>>
    /\ UNCHANGED <<trackVars, resolveVars, registryVars, parserVars>>

\* lines 71-91: the native-side edges
AddCEdges ==
    /\ mpc = "c_edges"
    /\ LET src(f) == Get(unified_node_names, f, f)
           keys == (DOMAIN merged_call_graph) \cup {src(f) : f \in DOMAIN c_data.call_graph}
       IN merged_call_graph' =
            [n \in keys |->
                AddTargets(Get(merged_call_graph, n, {}),
                    {CTarget(unified_node_names, py_data.functions, callee) :
                        callee \in UNION {c_data.call_graph[f] :
                                            f \in {g \in DOMAIN c_data.call_graph : src(g) = n}}})]
    /\ mpc' = "py_edges"
    /\ UNCHANGED <<c_data, py_data, py_name_to_c_func, unified_node_names, node_types,
                   c_to_python_calls, python_to_c_calls, raised>>
    /\ UNCHANGED <<trackVars, resolveVars, registryVars, parserVars>>

\* lines 93-118: the interpreter-side edges
AddPyEdges ==
    /\ mpc = "py_edges"
    /\ LET src(f) == Get(unified_node_names, f, f)
           keys == (DOMAIN merged_call_graph) \cup {src(f) : f \in DOMAIN py_data.call_graph}
           fails == \E f \in DOMAIN py_data.call_graph : \E callee \in py_data.call_graph[f] :
                        PyTargetRaises(unified_node_names, py_name_to_c_func, callee)
       IN /\ raised' = fails
          /\ mpc' = IF fails THEN "raised" ELSE "types"
          /\ merged_call_graph' =
               IF fails THEN merged_call_graph
               ELSE [n \in keys |->
                        AddTargets(Get(merged_call_graph, n, {}),
                            {PyTarget(unified_node_names, py_name_to_c_func, callee) :
                                callee \in UNION {py_data.call_graph[f] :
                                    f \in {g \in DOMAIN py_data.call_graph : src(g) = n}}})]
    /\ UNCHANGED <<c_data, py_data, py_name_to_c_func, unified_node_names, node_types,
                   c_to_python_calls, python_to_c_calls>>
    /\ UNCHANGED <<trackVars, resolveVars, registryVars, parserVars>>

\* lines 124-148: the kind of every node
TypeNodes ==
    /\ mpc = "types"
    /\ node_types' =
         [n \in DOMAIN merged_call_graph |->
            NodeType(n, RegisteredCFuncs(c_data.registered), c_data.functions,
                     py_data.functions)]
    /\ mpc' = "classify"
    /\ UNCHANGED <<c_data, py_data, py_name_to_c_func, unified_node_names,
                   merged_call_graph, c_to_python_calls, python_to_c_calls, raised>>
    /\ UNCHANGED <<trackVars, resolveVars, registryVars, parserVars>>

\* node_types.get(n): None for a callee that is no node
TypeOrNone(n) == Get(node_types, n, "None")

\* lines 150-174: the cross-language edges, and the result is returned
Classify ==
    /\ mpc = "classify"
    /\ c_to_python_calls' =
         {<<u, v>> \in UNION {{<<a, b>> : b \in merged_call_graph[a]} : a \in DOMAIN merged_call_graph} :
            /\ TypeOrNone(u) \in {"c_function", "registered_c_function"}
            /\ TypeOrNone(v) = "python_function"}
    /\ python_to_c_calls' =
         {<<u, v>> \in UNION {{<<a, b>> : b \in merged_call_graph[a]} : a \in DOMAIN merged_call_graph} :
            /\ ~(/\ TypeOrNone(u) \in {"c_function", "registered_c_function"}
                 /\ TypeOrNone(v) = "python_function")
            /\ TypeOrNone(u) = "python_function"
            /\ TypeOrNone(v) \in {"c_function", "registered_c_function"}}
    /\ mpc' = "done"
    /\ UNCHANGED <<c_data, py_data, py_name_to_c_func, unified_node_names,
                   merged_call_graph, node_types, raised>>
    /\ UNCHANGED <<trackVars, resolveVars, registryVars, parserVars>>

NextMerge ==
    \/ BuildMaps
    \/ AddNodes
    \/ AddCEdges
    \/ AddPyEdges
    \/ TypeNodes
    \/ Classify

SpecMerge == InitMerge /\ [][NextMerge]_vars

----------------------------------------------------------------------------
(* Properties of the merger *)

\* the registrations <<c, p>> of the input
Registrations == {c_data.registered[i] : i \in 1..Len(c_data.registered)}

\* the id 'c(p)' of a registration
CanonId(r) == r[1] \o <<"(">> \o r[2] \o <<")">>

CanonIds == {CanonId(r) : r \in Registrations}

MergedNodes == DOMAIN merged_call_graph

MergedEdges == UNION {{<<a, b>> : b \in merged_call_graph[a]} : a \in MergedNodes}

\* the identifier an endpoint is written with: arguments and module prefix removed
WrittenName(e) == LastDotPart(ParenHead(e))

\* C7: every registration of a native function c under the name p has the node
\* 'c(p)' in the merged graph, and neither bare c nor bare p is a node.
C7_OneNodePerRegistration ==
    mpc = "done" =>
        \A r \in Registrations :
            /\ CanonId(r) \in MergedNodes
            /\ r[1] \notin MergedNodes
            /\ r[2] \notin MergedNodes

\* C8: every endpoint of a merged edge that is written with the native name or
\* the registered name of a registered native function is a canonical id 'c(p)'.
C8_EndpointsCanonical ==
    mpc = "done" =>
        \A e \in MergedEdges : \A k \in 1..2 :
            WrittenName(e[k]) \in {r[1] : r \in Registrations} \cup {r[2] : r \in Registrations}
                => e[k] \in CanonIds

\* the kind of a node, read off the inputs: 'c(p)' ids are registered native
\* functions, other native-side functions are native, the rest is interpreter-only
IsNativeNode(n) == n \in MergedNodes /\ (n \in CanonIds \/ n \in c_data.functions)

IsForeignNode(n) == n \in MergedNodes /\ ~(n \in CanonIds \/ n \in c_data.functions)

NativeNodeOf(f) ==
    IF \E r \in Registrations : r[1] = f
    THEN CanonId(CHOOSE r \in Registrations : r[1] = f)
    ELSE f

\* C10: when the interpreter side supplies nothing, the merge does not raise,
\* returns a node for every native-side function and an edge for every
\* native-side edge, and reports no cross-language edge in either direction.
C10_NativeOnlyMerge ==
    (py_data.functions = {} /\ mpc \in {"raised", "done"}) =>
        /\ mpc = "done"
        /\ \A f \in c_data.functions : NativeNodeOf(f) \in MergedNodes
        /\ \A f \in DOMAIN c_data.call_graph : \A callee \in c_data.call_graph[f] :
              /\ NativeNodeOf(f) \in MergedNodes
              /\ IF callee \in c_data.functions
                 THEN NativeNodeOf(callee) \in merged_call_graph[NativeNodeOf(f)]
                 ELSE callee \in merged_call_graph[NativeNodeOf(f)]
                      \/ \E r \in Registrations : CanonId(r) \in merged_call_graph[NativeNodeOf(f)]
        /\ c_to_python_calls = {}
        /\ python_to_c_calls = {}

\* the source node of the interpreter-side caller f
PyCallerNode(f) == Get(unified_node_names, f, f)

\* C18: a module-dotted interpreter-side callee 'm.f' is reduced to its trailing
\* component before canonicalization: its edge goes to the node a call to 'f'
\* goes to, whether or not f is a registered name.
C18_DottedCalleeNormalized ==
    mpc = "done" =>
        \A f \in DOMAIN py_data.call_graph : \A callee \in py_data.call_graph[f] :
            HasTok(callee, ".") =>
                PyTarget(unified_node_names, py_name_to_c_func, LastDotPart(callee))
                    \in merged_call_graph[PyCallerNode(f)]

----------------------------------------------------------------------------
(* Properties of the merged graph as a whole *)

\* C28: the merged graph is closed: every callee in an adjacency list of
\* merged_call_graph is itself a node of the graph and has an entry in
\* node_types, so both endpoints of every edge have a kind.
C28_GraphClosed ==
    mpc = "done" =>
        \A e \in MergedEdges :
            /\ e[2] \in MergedNodes
            /\ e[1] \in DOMAIN node_types
            /\ e[2] \in DOMAIN node_types

\* the node the merger gives the native function f (lines 60-61)
MergedNodeOf(f) == Get(unified_node_names, f, f)

\* C29: canonicalization never confuses two entities: two distinct native
\* functions have two distinct merged nodes, and an interpreter-side call to a
\* registered name p goes to the node of a native function registered as p,
\* also when a registered name is the name of another native function.
C29_NoConfusion ==
    mpc = "done" =>
        /\ \A f, g \in c_data.functions : f # g => MergedNodeOf(f) # MergedNodeOf(g)
        /\ \A f \in DOMAIN py_data.call_graph : \A callee \in py_data.call_graph[f] :
              callee \in {r[2] : r \in Registrations} =>
                  \E r \in Registrations :
                      /\ r[2] = callee
                      /\ CanonId(r) \in merged_call_graph[PyCallerNode(f)]

----------------------------------------------------------------------------
(* The registration resolver: source text and syntax-tree fields           *)
(*                                                                         *)
(* A source text is a sequence of tokens; an initializer field is the      *)
(* syntax-tree node of the parsing service: its kind and its text.         *)

\* punctuation tokens: everything else is a word (matches \w+)
Punct == {"\"", ",", "{", "}", "(", ")", "[", "]", "&", "-", ".", "=", "|", ";"}

IsWord(t) == t \notin Punct

\* tokens that start with METH_
MethTokens == {"METH_VARARGS", "METH_NOARGS"}

StrLit(content) == [kind |-> "string_literal", text |-> <<"\"">> \o content \o <<"\"">>]

Ident(x) == [kind |-> "identifier", text |-> <<x>>]

\* NULL as the parsing service types it: an identifier or a null node
NullField(k) == [kind |-> k, text |-> <<"NULL">>]

NumberLit(n) == [kind |-> "number_literal", text |-> <<n>>]

MinusOne == [kind |-> "unary_expression", text |-> <<"-", "1">>]

CastOf(t, x) == [kind |-> "cast_expression", text |-> <<"(", t, ")", x>>]

Designated(f, v) == [kind |-> "initializer_pair", text |-> <<".", f, "=">> \o v]

\* the text of fields separated by commas
RECURSIVE JoinComma(_, _)
JoinComma(fields, i) ==
    IF i > Len(fields) THEN <<>>
    ELSE (IF i = 1 THEN <<>> ELSE <<",">>) \o fields[i].text \o JoinComma(fields, i + 1)

\* the text of an initializer list { f1, f2, ... }
Braced(fields) == <<"{">> \o JoinComma(fields, 1) \o <<"}">>

NestedList(fields) == [kind |-> "initializer_list", text |-> Braced(fields)]

\* the elements of a set of positions, ascending
RECURSIVE Ascending(_)
Ascending(S) == IF S = {} THEN <<>> ELSE <<Min(S)>> \o Ascending(S \ {Min(S)})

\* str.strip('"'): all leading and trailing quote characters removed
RECURSIVE StripQuotes(_)
StripQuotes(text) ==
    IF text = <<>> THEN text
    ELSE IF Head(text) = "\"" THEN StripQuotes(Tail(text))
    ELSE IF text[Len(text)] = "\"" THEN StripQuotes(SubSeq(text, 1, Len(text) - 1))
    ELSE text

\* str.split('[')[0]
BracketHead(text) ==
    IF HasTok(text, "[") THEN SubSeq(text, 1, FirstTok(text, "[") - 1) ELSE text

\* the node kinds both field readers collect (lines 232 and 291)
CollectedKinds == {"string_literal", "identifier", "field_expression"}

\* the texts of the fields of a collected kind, in order
RECURSIVE CollectElements(_, _)
CollectElements(fields, i) ==
    IF i > Len(fields) THEN <<>>
    ELSE (IF fields[i].kind \in CollectedKinds THEN <<fields[i].text>> ELSE <<>>)
             \o CollectElements(fields, i + 1)

\* the absent value (None) of an optional field, and a present value
None == <<>>

Some(x) == <<x>>

\* 'NULL' in text
ContainsNULL(text) == HasTok(text, "NULL")

\* no entry is dropped for its first element
ParseEntryKeepNULL(fields) ==
    LET elements == CollectElements(fields, 1)
    IN IF Len(elements) >= 2
       THEN Some([python_name |-> StripQuotes(elements[1]),
                  c_function  |-> elements[2],
                  flags       |-> IF Len(elements) > 2 THEN elements[3] ELSE <<>>,
                  doc         |-> IF Len(elements) > 3 THEN StripQuotes(elements[4]) ELSE <<>>])
       ELSE None

\* _parse_single_method_entry, lines 227-247
ParseSingleMethodEntry(fields) ==
    LET elements == CollectElements(fields, 1)
    IN IF Len(elements) >= 2 /\ ~ContainsNULL(elements[1])
       THEN Some([python_name |-> StripQuotes(elements[1]),
                  c_function  |-> elements[2],
                  flags       |-> IF Len(elements) > 2 THEN elements[3] ELSE <<>>,
                  doc         |-> IF Len(elements) > 3 THEN StripQuotes(elements[4]) ELSE <<>>])
       ELSE None

\* _parse_method_entries, lines 214-225
RECURSIVE ParseMethodEntries(_, _)
ParseMethodEntries(entries, i) ==
    IF i > Len(entries) THEN <<>>
    ELSE ParseSingleMethodEntry(entries[i]) \o ParseMethodEntries(entries, i + 1)

\* _parse_pymethoddef_array, lines 184-212: None when no entry was kept
ParseMethodDefArray(table) ==
    LET array_name == BracketHead(<<table.name, "[", "]">>)
        methods == ParseMethodEntries(table.entries, 1)
    IN IF array_name # <<>> /\ methods # <<>>
       THEN Some([array_name |-> array_name, methods |-> methods])
       ELSE None

\* _parse_pymoduledef_struct, lines 271-310
ParseModuleDefStruct(desc) ==
    LET fields == CollectElements(desc.fields, 1)
        struct_name == <<desc.name>>
        module_name == IF Len(fields) >= 2 THEN StripQuotes(fields[2]) ELSE <<>>
        methods_array == IF Len(fields) >= 5 THEN fields[5] ELSE <<>>
    IN IF struct_name # <<>> /\ module_name # <<>>
       THEN Some([struct_name |-> struct_name, module_name |-> module_name,
                  methods_array |-> methods_array])
       ELSE None

----------------------------------------------------------------------------
(* The registration resolver: the textual cross-references of              *)
(* CCodeParser._merge_results                                              *)

\* the text of a method-table declaration (item['code'])
TableCode(table) ==
    <<"static", "PyMethodDef", table.name, "[", "]", "=">>
        \o Braced([i \in 1..Len(table.entries) |-> NestedList(table.entries[i])])
        \o <<";">>

\* the text of a module-descriptor declaration (item['code'])
DescriptorCode(desc) ==
    <<"static", "struct", "PyModuleDef", desc.name, "=">> \o Braced(desc.fields) \o <<";">>

\* code[i..] starts with the tokens of pat, where "\\w" stands for any word
StartsAt(code, i, pat) ==
    /\ i + Len(pat) - 1 <= Len(code)
    /\ \A k \in 1..Len(pat) :
          IF pat[k] = "\\w" THEN IsWord(code[i + k - 1]) ELSE code[i + k - 1] = pat[k]

\* line 102-104: re.search(r'PyModule_Create\s*\(\s*&\s*(\w+)\s*\)'): the first
\* match's group, or "" (None) without a match
ModuleDefName(code) ==
    LET hits == {i \in 1..Len(code) :
                    StartsAt(code, i, <<"PyModule_Create", "(", "&", "\\w", ")">>)}
    IN IF hits = {} THEN "" ELSE code[Min(hits) + 3]

\* line 110-111: re.findall(r',\s*(\w+)\s*\}'): the groups of all matches
MethodDefMatches(code) ==
    LET hits == {i \in 1..Len(code) : StartsAt(code, i, <<",", "\\w", "}">>)}
    IN [k \in 1..Cardinality(hits) |-> code[Ascending(hits)[k] + 1]]

\* the first match is taken
FirstMatch(matches) == IF matches # <<>> THEN matches[1] ELSE ""

\* line 112: matches[-1] if matches else None
LastMatch(matches) == IF matches # <<>> THEN matches[Len(matches)] ELSE ""

\* the position of the quote that closes the string literal opened at i
ClosingQuote(code, i) ==
    LET later == {k \in (i + 1)..Len(code) : code[k] = "\""}
    IN IF later = {} THEN 0 ELSE Min(later)

\* line 118-119: re.findall(r'\{\s*"[^"]+"\s*,\s*(\w+)\s*,\s*METH_')
FuncMatches(code) ==
    LET hit(i) == /\ StartsAt(code, i, <<"{", "\"">>)
                  /\ ClosingQuote(code, i + 1) > i + 2
                  /\ StartsAt(code, ClosingQuote(code, i + 1), <<"\"", ",", "\\w", ",">>)
                  /\ ClosingQuote(code, i + 1) + 4 <= Len(code)
                  /\ code[ClosingQuote(code, i + 1) + 4] \in MethTokens
        hits == {i \in 1..Len(code) : hit(i)}
    IN [k \in 1..Cardinality(hits) |->
            code[ClosingQuote(code, Ascending(hits)[k] + 1) + 2]]

\* lines 89-91: {item['name']: item for item in items}; a later item replaces
\* an earlier one of the same name
RECURSIVE DictByName(_, _, _)
DictByName(d, items, i) ==
    IF i > Len(items) THEN d
    ELSE DictByName(Put(d, items[i].name, items[i]), items, i + 1)

\* lines 121-123: the definitions of the matched names that are known
RECURSIVE BoundFunctions(_, _, _)
BoundFunctions(func_matches, cmap, i) ==
    IF i > Len(func_matches) THEN <<>>
    ELSE (IF func_matches[i] \in DOMAIN cmap THEN <<cmap[func_matches[i]]>> ELSE <<>>)
             \o BoundFunctions(func_matches, cmap, i + 1)

\* lines 94-123: the chain of one init function
ChainOf(init_func, modmap, methmap, cmap) ==
    LET module_def_name == ModuleDefName(init_func.code)
        has_module == module_def_name # "" /\ module_def_name \in DOMAIN modmap
        module_def == modmap[module_def_name]
        method_def_name ==
            IF has_module THEN LastMatch(MethodDefMatches(DescriptorCode(module_def)))
            ELSE ""
        has_method == has_module /\ method_def_name # ""
                          /\ method_def_name \in DOMAIN methmap
        method_def == methmap[method_def_name]
    IN [init_function      |-> init_func.name,
        init_function_info |-> init_func,
        module_def_info    |-> IF has_module THEN Some(module_def) ELSE None,
        method_def_info    |-> IF has_method THEN Some(method_def) ELSE None,
        c_functions        |-> IF has_method
                               THEN BoundFunctions(FuncMatches(TableCode(method_def)), cmap, 1)
                               ELSE <<>>]

\* a chain is emitted only when its descriptor was resolved
AppendResolvedChain(chains, chain) ==
    IF chain.module_def_info = None THEN chains ELSE Append(chains, chain)

\* line 125: merged['module_chains'].append(chain)
AppendChain(chains, chain) == Append(chains, chain)

\* lines 84-87: list.extend over the per-file results
RECURSIVE ExtendAll(_, _, _)
ExtendAll(rs, key, i) ==
    IF i > Len(rs) THEN <<>> ELSE rs[i][key] \o ExtendAll(rs, key, i + 1)

----------------------------------------------------------------------------
(* The registration resolver: inputs *)

MaxEntries == 2

MaxInits == 2

Files == {"a.c", "b.c"}

\* {"name", func, METH_VARARGS, "doc"}
EntryPlain(n, f) ==
    <<StrLit(n), Ident(f), Ident("METH_VARARGS"), StrLit(<<"doc">>)>>

\* {"name", (PyCFunction)func, METH_VARARGS, "doc"}
EntryCast(n, f) ==
    <<StrLit(n), CastOf("PyCFunction", f), Ident("METH_VARARGS"), StrLit(<<"doc">>)>>

\* {NULL, NULL, 0, NULL}, with NULL typed as the parsing service types it
Sentinel(k) == <<NullField(k), NullField(k), NumberLit("0"), NullField(k)>>

\* the entries the text-based resolver is run on
MergeEntries ==
    {EntryPlain(<<"foo">>, "c_foo"), EntryCast(<<"bar">>, "c_bar"), Sentinel("identifier")}

\* the entries the tree-based extractor is run on; "NULL_safe" is a python
\* name that contains the text NULL
ExtractEntries ==
    MergeEntries \cup {EntryPlain(<<"NULL", "_safe">>, "c_bar"), Sentinel("null")}

\* method tables named Methods with at most MaxEntries entries
TablesOf(entries) ==
    {[name |-> "Methods", file |-> "a.c", entries |-> es] :
        es \in UNION {[1..n -> entries] : n \in 0..MaxEntries}}

\* the first field of a descriptor: the header macro, or a nested initializer
DescriptorHeads ==
    {Ident("PyModuleDef_HEAD_INIT")}
        \cup {NestedList(<<Ident("HEAD"), Ident(t)>>) : t \in {"Methods", "Other"}}

\* the doc field: NULL (of either node kind) or a string
DescriptorDocs == {NullField("identifier"), NullField("null"), StrLit(<<"doc">>)}

\* the size field: -1 or a macro
DescriptorSizes == {MinusOne, Ident("STATE_SIZE")}

\* the methods field and what follows it: a known or unknown table, a
\* designated initializer, a further NULL field (m_slots)
DescriptorTails ==
    {<<Ident(t)>> : t \in {"Methods", "Other"}}
        \cup {<<Designated("m_methods", <<"Methods">>)>>,
              <<Ident("Methods"), NullField("identifier")>>}

\* module descriptors named mod
DescriptorsOf(docs, sizes) ==
    {[name |-> "mod", file |-> f,
      fields |-> <<h, StrLit(<<"m">>), d, s>> \o t] :
        f \in Files, h \in DescriptorHeads, d \in docs, s \in sizes, t \in DescriptorTails}

\* init function bodies: no module-create call, a call on a known or unknown
\* descriptor, a call without address-of
InitBodies ==
    {<<"return", "NULL", ";">>,
     <<"return", "PyModule_Create", "(", "&", "mod", ")", ";">>,
     <<"return", "PyModule_Create", "(", "&", "other", ")", ";">>,
     <<"return", "PyModule_Create", "(", "mod", ")", ";">>}

InitNames == <<"PyInit_a", "PyInit_b", "PyInit_c">>

\* at most MaxInits init functions, all in one file
InitLists ==
    {[i \in 1..n |-> [name |-> InitNames[i], file |-> f, code |-> bodies[i]]] :
        n \in 0..MaxInits, f \in Files, bodies \in [1..MaxInits -> InitBodies]}

\* the foreign-callable native functions found in the files; c_foo may be
\* defined (static) in both
CFunctionLists ==
    {<<>>, <<[name |-> "c_foo", file |-> "a.c"]>>,
     <<[name |-> "c_bar", file |-> "a.c"], [name |-> "c_foo", file |-> "a.c"]>>,
     <<[name |-> "c_foo", file |-> "a.c"], [name |-> "c_foo", file |-> "b.c"]>>}

\* zero or one element of S, as a list
Optional(S) == {<<>>} \cup {<<x>> : x \in S}

\* a descriptor of a.c together with a descriptor of the same name in b.c
\* (both static) that names the table Methods or another table
SameNameInBoth(S) ==
    {<<x, y>> : x \in {d \in S : d.file = "a.c"},
                y \in {d \in S : /\ d.file = "b.c"
                                 /\ d.fields[1] = Ident("PyModuleDef_HEAD_INIT")
                                 /\ Len(d.fields) = 5
                                 /\ d.fields[5].kind = "identifier"}}

\* the items of a list that were found in file f
RECURSIVE InFile(_, _, _)
InFile(items, f, i) ==
    IF i > Len(items) THEN <<>>
    ELSE (IF items[i].file = f THEN <<items[i]>> ELSE <<>>) \o InFile(items, f, i + 1)

\* _parse_single_code, lines 53-60: the components found in one file
ResultOf(f, tables, descs, inits, cfuncs) ==
    [py_method_defs |-> InFile(tables, f, 1),
     py_module_defs |-> InFile(descs, f, 1),
     py_init_funcs  |-> InFile(inits, f, 1),
     py_c_functions |-> InFile(cfuncs, f, 1)]

\* parse_files, lines 30-35: one result per file, in the order a.c, b.c
MergeInputs ==
    {<<ResultOf("a.c", t, d, i, c), ResultOf("b.c", t, d, i, c)>> :
        t \in Optional(TablesOf(MergeEntries)),
        d \in Optional(DescriptorsOf({NullField("identifier")}, {MinusOne}))
                 \cup SameNameInBoth(DescriptorsOf({NullField("identifier")}, {MinusOne})),
        i \in InitLists, c \in CFunctionLists}

\* the declarations of one file, for the tree-based extractor
ExtractInputs ==
    {<<ResultOf("a.c", t, d, <<>>, <<>>)>> :
        t \in Optional(TablesOf(ExtractEntries)),
        d \in Optional({x \in DescriptorsOf(DescriptorDocs, DescriptorSizes) : x.file = "a.c"})}

----------------------------------------------------------------------------
(* The registration resolver as a state machine *)

InitResolve ==
    /\ \/ rentry = "merge" /\ results \in MergeInputs
       \/ rentry = "extract" /\ results \in ExtractInputs
    /\ merged = <<>>
    /\ method_def_map = <<>>
    /\ module_def_map = <<>>
    /\ c_function_map = <<>>
    /\ module_chains = <<>>
    /\ init_i = 0
    /\ method_definitions = <<>>
    /\ module_definitions = <<>>
    /\ rpc = "start"
    /\ TrackIdle
    /\ MergeIdle
    /\ RegistryIdle
    /\ ParserIdle

\* _merge_results, lines 74-91: the merged lists and the three name maps
MergeExtend ==
    /\ rentry = "merge"
    /\ rpc = "start"
    /\ merged' = [py_method_defs |-> ExtendAll(results, "py_method_defs", 1),
                  py_module_defs |-> ExtendAll(results, "py_module_defs", 1),
                  py_init_funcs  |-> ExtendAll(results, "py_init_funcs", 1),
                  py_c_functions |-> ExtendAll(results, "py_c_functions", 1),
                  all_registrations |-> <<>>]
    /\ method_def_map' = DictByName(<<>>, merged'.py_method_defs, 1)
    /\ module_def_map' = DictByName(<<>>, merged'.py_module_defs, 1)
    /\ c_function_map' = DictByName(<<>>, merged'.py_c_functions, 1)
    /\ init_i' = 1
    /\ rpc' = "chains"
    /\ UNCHANGED <<results, module_chains, method_definitions, module_definitions, rentry>>
    /\ UNCHANGED <<trackVars, mergeVars, registryVars, parserVars>>

\* lines 93-125: one pass of the loop over the init functions
BuildChain ==
    /\ rpc = "chains"
    /\ init_i <= Len(merged.py_init_funcs)
    /\ module_chains' = AppendChain(module_chains,
                            ChainOf(merged.py_init_funcs[init_i], module_def_map,
                                    method_def_map, c_function_map))
    /\ init_i' = init_i + 1
    /\ UNCHANGED <<results, merged, method_def_map, module_def_map, c_function_map,
                   method_definitions, module_definitions, rentry, rpc>>
    /\ UNCHANGED <<trackVars, mergeVars, registryVars, parserVars>>

\* lines 127-130: all_registrations, and the return
MergeReturn ==
    /\ rpc = "chains"
    /\ init_i > Len(merged.py_init_funcs)
    /\ merged' = [merged EXCEPT !.all_registrations =
                     merged.py_method_defs \o merged.py_module_defs
                         \o merged.py_init_funcs \o merged.py_c_functions]
    /\ rpc' = "done"
    /\ UNCHANGED <<results, method_def_map, module_def_map, c_function_map, module_chains,
                   init_i, method_definitions, module_definitions, rentry>>
    /\ UNCHANGED <<trackVars, mergeVars, registryVars, parserVars>>

\* lines 164-176: the tables of the file that yield a result
RECURSIVE ParseTables(_, _)
ParseTables(items, i) ==
    IF i > Len(items) THEN <<>>
    ELSE ParseMethodDefArray(items[i]) \o ParseTables(items, i + 1)

\* lines 253-263: the descriptors of the file that yield a result
RECURSIVE ParseDescriptors(_, _)
ParseDescriptors(items, i) ==
    IF i > Len(items) THEN <<>>
    ELSE ParseModuleDefStruct(items[i]) \o ParseDescriptors(items, i + 1)

\* _extract_pymethoddef_arrays, lines 160-177
ExtractMethodDefs ==
    /\ rentry = "extract"
    /\ rpc = "start"
    /\ method_definitions' = ParseTables(results[1].py_method_defs, 1)
    /\ rpc' = "modules"
    /\ UNCHANGED <<results, merged, method_def_map, module_def_map, c_function_map,
                   module_chains, init_i, module_definitions, rentry>>
    /\ UNCHANGED <<trackVars, mergeVars, registryVars, parserVars>>

\* _extract_pymoduledef_structs, lines 249-264
ExtractModuleDefs ==
    /\ rpc = "modules"
    /\ module_definitions' = ParseDescriptors(results[1].py_module_defs, 1)
    /\ rpc' = "done"
    /\ UNCHANGED <<results, merged, method_def_map, module_def_map, c_function_map,
                   module_chains, init_i, method_definitions, rentry>>
    /\ UNCHANGED <<trackVars, mergeVars, registryVars, parserVars>>

NextResolve ==
    \/ MergeExtend
    \/ BuildChain
    \/ MergeReturn
    \/ ExtractMethodDefs
    \/ ExtractModuleDefs

SpecResolve == InitResolve /\ [][NextResolve]_vars

----------------------------------------------------------------------------
(* Properties of the registration resolver *)

\* the declarations of all input files, in file order
InputTables == ExtendAll(results, "py_method_defs", 1)

InputDescriptors == ExtendAll(results, "py_module_defs", 1)

InputInits == ExtendAll(results, "py_init_funcs", 1)

InputCFunctions == ExtendAll(results, "py_c_functions", 1)

NamesOf(items) == [i \in 1..Len(items) |-> items[i].name]

LastOf(text) == text[Len(text)]

Max(S) == CHOOSE x \in S : \A y \in S : y <= x

\* the table {{"foo", c_foo, METH_VARARGS, "doc"}, {NULL, NULL, 0, NULL}}
IsSyntheticTable(t) ==
    /\ Len(t.entries) = 2
    /\ t.entries[1] = EntryPlain(<<"foo">>, "c_foo")
    /\ t.entries[2] \in {Sentinel("identifier"), Sentinel("null")}

\* the methods field (the 5th) of descriptor d names table t
ReferencesTable(d, t) == Len(d.fields) >= 5 /\ LastOf(d.fields[5].text) = t.name

\* init function f calls PyModule_Create(&d)
ReferencesDescriptor(f, d) ==
    f.code = <<"return", "PyModule_Create", "(", "&", d.name, ")", ";">>

\* one synthetic table, one descriptor that references it, one init function
\* that references the descriptor
SyntheticRegistration ==
    /\ Len(InputTables) = 1 /\ IsSyntheticTable(InputTables[1])
    /\ Len(InputDescriptors) = 1 /\ ReferencesTable(InputDescriptors[1], InputTables[1])
    /\ Len(InputInits) = 1 /\ ReferencesDescriptor(InputInits[1], InputDescriptors[1])

\* the one chain foo -> c_foo over the given descriptor and table
OneChainToCFoo ==
    /\ Len(module_chains) = 1
    /\ module_chains[1].init_function = InputInits[1].name
    /\ module_chains[1].module_def_info = Some(InputDescriptors[1])
    /\ module_chains[1].method_def_info = Some(InputTables[1])
    /\ NamesOf(module_chains[1].c_functions) = <<"c_foo">>

\* the synthetic table read from the tree: the one entry foo -> c_foo
OneEntryFooToCFoo ==
    method_definitions =
        <<[array_name |-> <<InputTables[1].name>>,
           methods |-> <<[python_name |-> <<"foo">>, c_function |-> <<"c_foo">>,
                          flags |-> <<"METH_VARARGS">>, doc |-> <<"doc">>]>>]>>

DescriptorFor(f) ==
    {d \in DOMAIN module_def_map : ModuleDefName(f.code) # "" /\ d = ModuleDefName(f.code)}

\* C12: chain construction emits exactly one chain per detected init function, in
\* order, also while it runs; a chain whose descriptor symbol or descriptor is
\* unresolved has null descriptor, null table and no bound function, and a chain
\* whose table reference or table is unresolved has a null table and no bound
\* function.
C12_OneChainPerInit ==
    (rentry = "merge" /\ rpc \in {"chains", "done"}) =>
        /\ Len(module_chains) = init_i - 1
        /\ rpc = "done" => Len(module_chains) = Len(InputInits)
        /\ \A i \in 1..Len(module_chains) :
              LET ch == module_chains[i]
              IN /\ ch.init_function = InputInits[i].name
                 /\ ch.init_function_info = InputInits[i]
                 /\ DescriptorFor(InputInits[i]) = {} =>
                        /\ ch.module_def_info = None
                        /\ ch.method_def_info = None
                        /\ ch.c_functions = <<>>
                 /\ DescriptorFor(InputInits[i]) # {} => ch.module_def_info # None
                 /\ ch.method_def_info = None => ch.c_functions = <<>>

C12_Witness ==
    /\ rentry = "merge" /\ rpc = "done"
    /\ Len(module_chains) = 2
    /\ module_chains[1].module_def_info = None
    /\ module_chains[2].module_def_info # None
    /\ module_chains[2].method_def_info = None

\* an entry whose first field is textually the NULL sentinel
IsSentinelEntry(fields) == fields[1].text = <<"NULL">>

\* the python name and the native function an entry holds: the content of its
\* first field and the function its second field designates
OwnEntry(fields) ==
    [python_name |-> StripQuotes(fields[1].text), c_function |-> <<LastOf(fields[2].text)>>]

RECURSIVE RealEntries(_, _)
RealEntries(entries, i) ==
    IF i > Len(entries) THEN <<>>
    ELSE (IF IsSentinelEntry(entries[i]) THEN <<>> ELSE <<OwnEntry(entries[i])>>)
             \o RealEntries(entries, i + 1)

\* the entries read from the tables of the file
ParsedEntries ==
    IF method_definitions = <<>> THEN <<>>
    ELSE [k \in 1..Len(method_definitions[1].methods) |->
            [python_name |-> method_definitions[1].methods[k].python_name,
             c_function  |-> method_definitions[1].methods[k].c_function]]

\* C13: an initializer entry is dropped exactly when its first field is
\* textually the NULL sentinel; every other entry yields one MethodEntry with its
\* own python name and native function.
C13_DroppedIffSentinel ==
    (rentry = "extract" /\ rpc = "done" /\ Len(InputTables) = 1) =>
        ParsedEntries = RealEntries(InputTables[1].entries, 1)

\* identifiers that precede a closing brace in a text
BeforeBrace(code) ==
    {i \in 1..(Len(code) - 1) : IsWord(code[i]) /\ code[i + 1] = "}"}

\* identifiers that follow a comma and precede a closing brace
AfterCommaBeforeBrace(code) == {i \in BeforeBrace(code) : i > 1 /\ code[i - 1] = ","}

\* the table a chain must hold when the qualifying identifiers are at positions
\* cands of the descriptor text
TableByLast(code, cands) ==
    IF cands # {} /\ code[Max(cands)] \in DOMAIN method_def_map
    THEN Some(method_def_map[code[Max(cands)]])
    ELSE None

\* C19 as stated: the chain's method table is the one named by the last
\* identifier that precedes a closing brace in the descriptor's initializer, and
\* null when that identifier names no known table.
C19_LastIdentifierAsStated ==
    (rentry = "merge" /\ rpc = "done") =>
        \A i \in 1..Len(module_chains) :
            module_chains[i].module_def_info # None =>
                LET code == DescriptorCode(module_chains[i].module_def_info[1])
                IN module_chains[i].method_def_info = TableByLast(code, BeforeBrace(code))

\* C19, amended: the identifiers that qualify are those that follow a comma and
\* precede a closing brace; the last of them is used, and the table is null when
\* it names no known table, even if an earlier one does.
C19_LastIdentifier ==
    (rentry = "merge" /\ rpc = "done") =>
        \A i \in 1..Len(module_chains) :
            module_chains[i].module_def_info # None =>
                LET code == DescriptorCode(module_chains[i].module_def_info[1])
                IN module_chains[i].method_def_info =
                       TableByLast(code, AfterCommaBeforeBrace(code))

\* two identifiers qualify, the earlier names the known table, the last does not
C19_Witness ==
    /\ rentry = "merge" /\ rpc = "done"
    /\ \E i \in 1..Len(module_chains) :
          /\ module_chains[i].module_def_info # None
          /\ module_chains[i].method_def_info = None
          /\ LET code == DescriptorCode(module_chains[i].module_def_info[1])
                 cands == AfterCommaBeforeBrace(code)
             IN /\ Cardinality(cands) = 2
                /\ code[Min(cands)] \in DOMAIN method_def_map
                /\ code[Max(cands)] \notin DOMAIN method_def_map

\* the canonical layout {header, name, doc, size, methods}
IsCanonicalDescriptor(d) ==
    /\ Len(d.fields) = 5
    /\ d.fields[1] = Ident("PyModuleDef_HEAD_INIT")
    /\ d.fields[2].kind = "string_literal"
    /\ d.fields[5].kind = "identifier"

\* C20: for a descriptor in the canonical 5-field layout the recorded module name
\* is the 2nd field and the recorded methods reference is the 5th field, whatever
\* the doc and size fields are.
C20_PositionalFields ==
    (rentry = "extract" /\ rpc = "done" /\ Len(InputDescriptors) = 1
         /\ IsCanonicalDescriptor(InputDescriptors[1])) =>
        module_definitions =
            <<[struct_name   |-> <<InputDescriptors[1].name>>,
               module_name   |-> StripQuotes(InputDescriptors[1].fields[2].text),
               methods_array |-> InputDescriptors[1].fields[5].text]>>

\* the definitions named n among items that are located in file f
InFileNamed(items, n, f) ==
    {i \in 1..Len(items) : items[i].name = n /\ items[i].file = f}

\* C30: when a descriptor, a table or a bound function of a chain is defined
\* under the same name in the init function's own file, the chain links to the
\* definition located in that file.
C30_OwnFileDefinitions ==
    (rentry = "merge" /\ rpc = "done") =>
        \A i \in 1..Len(module_chains) :
            LET ch == module_chains[i]
                own == ch.init_function_info.file
            IN /\ (/\ ch.module_def_info # None
                   /\ InFileNamed(InputDescriptors, ch.module_def_info[1].name, own) # {})
                      => ch.module_def_info[1].file = own
               /\ (/\ ch.method_def_info # None
                   /\ InFileNamed(InputTables, ch.method_def_info[1].name, own) # {})
                      => ch.method_def_info[1].file = own
               /\ \A k \in 1..Len(ch.c_functions) :
                      InFileNamed(InputCFunctions, ch.c_functions[k].name, own) # {}
                          => ch.c_functions[k].file = own

----------------------------------------------------------------------------
(* The function registry and the two-phase run of parse_files               *)
(* (src/C/py_call_extractor.py)                                             *)

MaxDefs == 2

Paths == {"a.c", "b.c"}

FuncNames == {"helper", "run"}

\* the calls on the interpreter API in a function body: none, or one call
\* given by the statements its variables depend on, the statement of the call
\* last; a statement is given by the names of the functions it calls
\* (_find_function_calls_in_stmt)
Sites ==
    {<<>>,
     << << <<"PyObject_CallObject">> >> >>,
     << << <<"helper">>, <<"PyObject_CallObject">> >> >>,
     << << <<"helper">>, <<"PyObject_GetAttrString">> >> >>}

\* the function definitions of a file, in the order of _find_functions
FileDefs == UNION {[1..n -> [name : FuncNames, site : Sites]] : n \in 0..MaxDefs}

\* a file on disk: unreadable (missing), or readable with its definitions
MissingFile == [readable |-> FALSE, defs |-> <<>>]

FileStates == {MissingFile} \cup {[readable |-> TRUE, defs |-> ds] : ds \in FileDefs}

\* the argument of parse_files: one or two paths
PathLists == UNION {[1..n -> Paths] : n \in 1..2}

RangeOf(s) == {s[i] : i \in 1..Len(s)}

\* func_node.text: the source span of the i-th definition of a file, with the
\* call site the analysis finds in it
SourceText(path, i, def) == [span |-> <<path, i>>, site |-> def.site]

\* lines 88-95: the fact of the i-th definition of a file
FactOf(path, i, def) ==
    [function_name |-> def.name, file |-> path, line |-> i,
     code |-> SourceText(path, i, def)]

\* parsed_files[file_path] = code (line 47): a dict, as a list of pairs in
\* insertion order
DictPut(pairs, k, v) ==
    IF \E i \in 1..Len(pairs) : pairs[i][1] = k
    THEN [i \in 1..Len(pairs) |-> IF pairs[i][1] = k THEN <<k, v>> ELSE pairs[i]]
    ELSE Append(pairs, <<k, v>>)

\* the registry of an earlier call is kept
KeepRegistry(old) == old

\* line 71: self.all_functions = {}
ResetRegistry(old) == <<>>

\* a definition replaces the facts recorded under its name
RegisterFactUnique(registry, fact) == Put(registry, fact.function_name, <<fact>>)

\* lines 85-95: the fact is appended to the list of its name
RegisterFact(registry, fact) ==
    Put(registry, fact.function_name,
        Append(Get(registry, fact.function_name, <<>>), fact))

\* lines 79-95: the definitions of one file, in order
RECURSIVE RegisterDefs(_, _, _, _)
RegisterDefs(registry, path, defs, i) ==
    IF i > Len(defs) THEN registry
    ELSE RegisterDefs(RegisterFact(registry, FactOf(path, i, defs[i])), path, defs, i + 1)

\* the facts of every definition of the parsed files, in file order
RECURSIVE AllFacts(_, _)
AllFacts(pairs, k) ==
    IF k > Len(pairs) THEN <<>>
    ELSE [i \in 1..Len(pairs[k][2]) |-> FactOf(pairs[k][1], i, pairs[k][2][i])]
             \o AllFacts(pairs, k + 1)

\* the facts in the order of the loops of lines 110-111: names in dict
\* insertion order (first definition), then the list of each name
RECURSIVE InRegistryOrder(_, _, _)
InRegistryOrder(registry, facts, i) ==
    IF i > Len(facts) THEN <<>>
    ELSE (IF \E j \in 1..(i - 1) : facts[j].function_name = facts[i].function_name
          THEN <<>> ELSE registry[facts[i].function_name])
             \o InRegistryOrder(registry, facts, i + 1)

\* the names a list of statements calls, in order
RECURSIVE CalledNames(_, _)
CalledNames(stmts, i) ==
    IF i > Len(stmts) THEN <<>> ELSE stmts[i] \o CalledNames(stmts, i + 1)

\* the helper definition is recorded without its source text
HelperRecordNoText(info) ==
    [function_name |-> info.function_name, file |-> info.file, line |-> info.line,
     code |-> <<>>]

\* lines 300-305: the helper definition of a fact
HelperRecord(info) ==
    [function_name |-> info.function_name, file |-> info.file, line |-> info.line,
     code |-> info.code]

\* lines 294-305: all facts of every called name that is in the registry, once
\* per name
RECURSIVE HelperDefs(_, _, _, _)
HelperDefs(registry, names, i, found_functions) ==
    IF i > Len(names) THEN <<>>
    ELSE IF names[i] \in DOMAIN registry /\ names[i] \notin found_functions
         THEN [k \in 1..Len(registry[names[i]]) |-> HelperRecord(registry[names[i]][k])]
                  \o HelperDefs(registry, names, i + 1, found_functions \cup {names[i]})
         ELSE HelperDefs(registry, names, i + 1, found_functions)

\* lines 178-188: the allow list of foreign-invocation functions
PythonCallFuncs ==
    {"PyObject_CallObject", "PyObject_CallFunction", "PyObject_CallMethod",
     "PyObject_Call", "PyObject_CallFunctionObjArgs", "PyObject_CallMethodObjArgs",
     "PyEval_CallObject", "PyEval_CallFunction", "PyEval_CallMethod"}

\* every call is taken for a foreign invocation
AnyCallFunction(function_name) == TRUE

\* _is_python_call_function
IsPythonCallFunction(function_name) == function_name \in PythonCallFuncs

\* _get_function_name of the call_expression of a call of the body
CalledFunctionName(call) == call[Len(call)][1]

\* _find_python_call_expressions: the calls of the body on the allow list
FindPythonCallExpressions(site) ==
    SelectSeq(site, LAMBDA call : IsPythonCallFunction(CalledFunctionName(call)))

\* the facts recorded under the name of the analyzed function are dropped
RegistryWithoutAnalyzed(registry, info) ==
    [n \in DOMAIN registry \ {info.function_name} |-> registry[n]]

\* lines 110-135: the loop only reads self.all_functions
RegistryAfterAnalysis(registry, info) == registry

\* lines 127-135: the call sites of one function
CallInfos(registry, info) ==
    LET call_nodes == FindPythonCallExpressions(info.code.site)
    IN  [k \in 1..Len(call_nodes) |->
            [file |-> info.file,
             containing_function |-> info.function_name,
             context_statements |-> call_nodes[k],
             function_definitions |->
                 HelperDefs(registry, CalledNames(call_nodes[k], 1), 1, {})]]

----------------------------------------------------------------------------
(* parse_files as a state machine; the same extractor may be called twice   *)
(* on the same, unchanged files                                             *)

InitRegistry ==
    /\ file_paths \in PathLists
    /\ disk \in [Paths -> FileStates]
    /\ \A p \in Paths \ RangeOf(file_paths) : disk[p] = MissingFile
    /\ parsed_files = <<>>
    /\ all_functions = <<>>
    /\ all_calls = <<>>
    /\ open_i = 1
    /\ reg_i = 0
    /\ todo = <<>>
    /\ run = 1
    /\ first_run = <<>>
    /\ started = <<>>
    /\ ddg_built = <<>>
    /\ failed = FALSE
    /\ gpc = "open"
    /\ TrackIdle
    /\ MergeIdle
    /\ ResolveIdle
    /\ ParserIdle

\* lines 44-47: a readable file is read into parsed_files
ReadFile ==
    /\ gpc = "open"
    /\ open_i <= Len(file_paths)
    /\ disk[file_paths[open_i]].readable
    /\ parsed_files' = DictPut(parsed_files, file_paths[open_i], disk[file_paths[open_i]].defs)
    /\ open_i' = open_i + 1
    /\ UNCHANGED <<ddg_built, file_paths, disk, all_functions, all_calls, reg_i, todo, run, first_run,
                   started, failed, gpc>>
    /\ UNCHANGED <<trackVars, mergeVars, resolveVars, parserVars>>

\* line 45: open() raises for a missing or unreadable file; nothing catches it
OpenRaises ==
    /\ gpc = "open"
    /\ open_i <= Len(file_paths)
    /\ ~disk[file_paths[open_i]].readable
    /\ failed' = TRUE
    /\ gpc' = "raised"
    /\ UNCHANGED <<ddg_built, file_paths, disk, parsed_files, all_functions, all_calls, open_i, reg_i,
                   todo, run, first_run, started>>
    /\ UNCHANGED <<trackVars, mergeVars, resolveVars, parserVars>>

\* lines 49-50 and 71: phase 1 starts with an empty registry
StartRegistry ==
    /\ gpc = "open"
    /\ open_i > Len(file_paths)
    /\ all_functions' = ResetRegistry(all_functions)
    /\ reg_i' = 1
    /\ gpc' = "register"
    /\ UNCHANGED <<ddg_built, file_paths, disk, parsed_files, all_calls, open_i, todo, run, first_run,
                   started, failed>>
    /\ UNCHANGED <<trackVars, mergeVars, resolveVars, parserVars>>

\* lines 73-95: the definitions of the next file
RegisterFile ==
    /\ gpc = "register"
    /\ reg_i <= Len(parsed_files)
    /\ all_functions' = RegisterDefs(all_functions, parsed_files[reg_i][1],
                                     parsed_files[reg_i][2], 1)
    /\ reg_i' = reg_i + 1
    /\ UNCHANGED <<ddg_built, file_paths, disk, parsed_files, all_calls, open_i, todo, run, first_run,
                   started, failed, gpc>>
    /\ UNCHANGED <<trackVars, mergeVars, resolveVars, parserVars>>

\* lines 52 and 108-111: phase 2 starts over the complete registry
StartAnalysis ==
    /\ gpc = "register"
    /\ reg_i > Len(parsed_files)
    /\ all_calls' = <<>>
    /\ todo' = InRegistryOrder(all_functions, AllFacts(parsed_files, 1), 1)
    /\ started' = all_functions
    /\ ddg_built' = <<>>
    /\ gpc' = "analyze"
    /\ UNCHANGED <<file_paths, disk, parsed_files, all_functions, open_i, reg_i, run,
                   first_run, failed>>
    /\ UNCHANGED <<trackVars, mergeVars, resolveVars, parserVars>>

\* lines 111-121: the pre-scan finds no allow-listed call in the function;
\* the loop continues with the next function
SkipFunction ==
    /\ gpc = "analyze"
    /\ todo # <<>>
    /\ FindPythonCallExpressions(Head(todo).code.site) = <<>>
    /\ todo' = Tail(todo)
    /\ UNCHANGED <<ddg_built, file_paths, disk, parsed_files, all_functions, all_calls,
                   open_i, reg_i, run, first_run, started, failed, gpc>>
    /\ UNCHANGED <<trackVars, mergeVars, resolveVars, parserVars>>

\* lines 111-135: the pre-scan finds a call; the dependency graph of the
\* function is built and its call sites are extracted
AnalyzeFunction ==
    /\ gpc = "analyze"
    /\ todo # <<>>
    /\ FindPythonCallExpressions(Head(todo).code.site) # <<>>
    /\ ddg_built' = Append(ddg_built, Head(todo))
    /\ all_calls' = all_calls \o CallInfos(all_functions, Head(todo))
    /\ all_functions' = RegistryAfterAnalysis(all_functions, Head(todo))
    /\ todo' = Tail(todo)
    /\ UNCHANGED <<file_paths, disk, parsed_files, open_i, reg_i, run,
                   first_run, started, failed, gpc>>
    /\ UNCHANGED <<trackVars, mergeVars, resolveVars, parserVars>>

\* lines 54-59: the result is returned
ReturnCalls ==
    /\ gpc = "analyze"
    /\ todo = <<>>
    /\ first_run' = IF run = 1 THEN all_functions ELSE first_run
    /\ gpc' = "done"
    /\ UNCHANGED <<ddg_built, file_paths, disk, parsed_files, all_functions, all_calls, open_i, reg_i,
                   todo, run, started, failed>>
    /\ UNCHANGED <<trackVars, mergeVars, resolveVars, parserVars>>

\* parse_files is called again on the same extractor with the same files:
\* lines 43-44, with self.all_functions as the first call left it
ParseAgain ==
    /\ gpc = "done"
    /\ run = 1
    /\ run' = 2
    /\ parsed_files' = <<>>
    /\ open_i' = 1
    /\ gpc' = "open"
    /\ UNCHANGED <<ddg_built, file_paths, disk, all_functions, all_calls, reg_i, todo, first_run,
                   started, failed>>
    /\ UNCHANGED <<trackVars, mergeVars, resolveVars, parserVars>>

NextRegistry ==
    \/ ReadFile
    \/ OpenRaises
    \/ StartRegistry
    \/ RegisterFile
    \/ StartAnalysis
    \/ SkipFunction
    \/ AnalyzeFunction
    \/ ReturnCalls
    \/ ParseAgain

SpecRegistry == InitRegistry /\ [][NextRegistry]_vars

----------------------------------------------------------------------------
(* Properties of the function registry *)

\* the definitions found in the input files: <<path, position>>
InputDefs == UNION {{<<p, i>> : i \in 1..Len(disk[p].defs)} : p \in RangeOf(file_paths)}

\* the fact a definition of the input files must have
InputFact(d) == FactOf(d[1], d[2], disk[d[1]].defs[d[2]])

\* the input definitions of a name
DefsNamed(n) == {d \in InputDefs : disk[d[1]].defs[d[2]].name = n}

\* the facts a registry holds under a name
FactsOf(registry, n) ==
    IF n \in DOMAIN registry THEN {registry[n][k] : k \in 1..Len(registry[n])} ELSE {}

CountOf(registry, n) == IF n \in DOMAIN registry THEN Len(registry[n]) ELSE 0

\* the helper definitions attached to a call site, with their multiplicity
HelperCount(call, fact) ==
    Cardinality({k \in 1..Len(call.function_definitions) :
                    call.function_definitions[k] = fact})

\* C14: after phase 1 the registry holds, under each name, one fact per
\* definition of that name in the input files (same file or different files), and
\* the helper lookup of a call site returns every fact of each name it calls.
C14_RegistryKeepsDuplicates ==
    /\ gpc \in {"analyze", "done"} =>
          \A n \in FuncNames :
              /\ FactsOf(all_functions, n) = {InputFact(d) : d \in DefsNamed(n)}
              /\ CountOf(all_functions, n) = Cardinality(DefsNamed(n))
    /\ gpc = "done" =>
          \A c \in 1..Len(all_calls) :
              \A n \in RangeOf(CalledNames(all_calls[c].context_statements, 1)) :
                  \A d \in DefsNamed(n) : HelperCount(all_calls[c], InputFact(d)) = 1

\* a name defined once in each of two files, and a call site that gets both
C14_Witness ==
    /\ gpc = "done"
    /\ \E n \in FuncNames :
          /\ Cardinality({d[1] : d \in DefsNamed(n)}) = 2
          /\ CountOf(all_functions, n) = 2
          /\ \E c \in 1..Len(all_calls) :
                \A d \in DefsNamed(n) : HelperCount(all_calls[c], InputFact(d)) = 1

\* C15: the registry built by a second parse_files call on the same extractor
\* and the same files holds the same facts as after the first call, each once.
C15_RegistryIdempotent ==
    (run = 2 /\ gpc \in {"analyze", "done"}) =>
        \A n \in FuncNames :
            /\ FactsOf(all_functions, n) = FactsOf(first_run, n)
            /\ CountOf(all_functions, n) = CountOf(first_run, n)

C15_Witness ==
    /\ run = 2
    /\ gpc = "done"
    /\ \E n \in FuncNames : CountOf(first_run, n) = 2 /\ CountOf(all_functions, n) = 2

\* name n is defined in the input files, and only in file p
DefinedOnlyIn(n, p) == DefsNamed(n) # {} /\ \A d \in DefsNamed(n) : d[1] = p

\* C16: when a statement of a call site's slice calls a function defined only in
\* another input file, the call site carries that definition as a helper
\* definition with its file, line and source text.
C16_CrossFileHelper ==
    gpc = "done" =>
        \A c \in 1..Len(all_calls) :
            \A n \in RangeOf(CalledNames(all_calls[c].context_statements, 1)) :
                \A p \in Paths \ {all_calls[c].file} :
                    DefinedOnlyIn(n, p) =>
                        \A d \in DefsNamed(n) :
                            \E k \in 1..Len(all_calls[c].function_definitions) :
                                LET h == all_calls[c].function_definitions[k]
                                IN /\ h.function_name = n
                                   /\ h.file = p
                                   /\ h.line = d[2]
                                   /\ h.code = SourceText(p, d[2], disk[p].defs[d[2]])

C16_Witness ==
    /\ gpc = "done"
    /\ \E c \in 1..Len(all_calls) :
          \E n \in RangeOf(CalledNames(all_calls[c].context_statements, 1)) :
              \E p \in Paths \ {all_calls[c].file} :
                  /\ DefinedOnlyIn(n, p)
                  /\ \E k \in 1..Len(all_calls[c].function_definitions) :
                        all_calls[c].function_definitions[k].file = p

\* C17: a missing or unreadable input file does not abort the run: the call
\* returns, and the facts of every readable file of the batch are in its result.
C17_MissingFileSkipped ==
    /\ ~failed
    /\ gpc = "done" =>
          \A p \in RangeOf(file_paths) :
              disk[p].readable =>
                  \A i \in 1..Len(disk[p].defs) :
                      FactOf(p, i, disk[p].defs[i])
                          \in FactsOf(all_functions, disk[p].defs[i].name)

----------------------------------------------------------------------------
(* The foreign-callable function detector                                  *)
(* (py_module_extractor.py, _extract_all_py_c_functions)                   *)

\* func_text[:200]: the number of characters of the function text that are searched
PrefixLength == 200

MaxFuncs == 2

MaxParams == 3

\* a token in which the text PyObject occurs (at its first character)
Mentions(tok) == tok = "PyObject"

Fifty == "zzzzzzzzzzzzzzzzzzzzzzzzzzzzzzzzzzzzzzzzzzzzzzzzzz"

\* a declaration specifier of more than 200 characters
LongSpecifier == "__attribute__((annotate(\"" \o Fifty \o Fifty \o Fifty \o Fifty \o "\")))"

\* the text of a parameter_list node: ( type *p , type *p , ... )
RECURSIVE ParamTokens(_, _)
ParamTokens(params, i) ==
    IF i > Len(params) THEN <<")">>
    ELSE (IF i = 1 THEN <<>> ELSE <<",">>) \o <<params[i], "*p">> \o ParamTokens(params, i + 1)

ParamText(node) == <<"(">> \o ParamTokens(node.params, 1)

\* code[node.start_byte:node.end_byte] of a function_definition node, as tokens
FuncText(node) ==
    node.specifiers \o <<node.rtype>> \o [k \in 1..node.depth |-> "*"]
        \o <<node.name>> \o ParamText(node) \o <<"{", "}">>

\* the offset of token i in a text whose tokens are separated by one character
RECURSIVE OffsetOf(_, _)
OffsetOf(text, i) == IF i = 1 THEN 0 ELSE OffsetOf(text, i - 1) + Len(text[i - 1]) + 1

\* 'PyObject' in func_text[:200]
PrefixMentions(text) ==
    \E i \in 1..Len(text) :
        Mentions(text[i]) /\ OffsetOf(text, i) + Len("PyObject") <= PrefixLength

\* param_text.count('PyObject')
CountMentions(text) == Cardinality({i \in 1..Len(text) : Mentions(text[i])})

\* _check_parameter_list
CheckParameterList(node) == CountMentions(ParamText(node)) >= 2

\* the loop over function_node.children: a function_declarator child, or a
\* function_declarator child of a pointer_declarator child; a declarator nested
\* deeper is not found
FindsDeclarator(node) == node.depth <= 1

\* _is_python_c_api_function
IsPythonCApiFunction(node) ==
    IF ~PrefixMentions(FuncText(node)) THEN FALSE
    ELSE IF FindsDeclarator(node) THEN CheckParameterList(node)
    ELSE FALSE

\* ---- inputs ----
ReturnTypes == {"PyObject", "int", "void"}

ParamTypes == {"PyObject", "int"}

SpecifierLists == {<<>>, <<"static">>, <<LongSpecifier>>}

ParamLists == UNION {[1..n -> ParamTypes] : n \in 0..MaxParams}

DetectNames == <<"f1", "f2", "f3">>

FuncNodes(name) ==
    [name : {name}, specifiers : SpecifierLists, rtype : ReturnTypes,
     depth : 0..2, params : ParamLists]

\* ---- the detector as a state machine ----
InitDetect ==
    /\ fdefs = <<>>
    /\ scan_i = 1
    /\ py_c_functions = <<>>
    /\ dpc = "scan"
    /\ TrackIdle
    /\ MergeIdle
    /\ ResolveIdle
    /\ RegistryIdle
    /\ CollectIdle
    /\ BuildIdle

\* lines 231-234: the traversal reaches the next function_definition node
VisitFunction ==
    /\ dpc = "scan"
    /\ scan_i = Len(fdefs) + 1
    /\ Len(fdefs) < MaxFuncs
    /\ \E f \in FuncNodes(DetectNames[scan_i]) : fdefs' = Append(fdefs, f)
    /\ UNCHANGED <<scan_i, py_c_functions, dpc>>
    /\ UNCHANGED <<trackVars, mergeVars, resolveVars, registryVars, collectVars, buildVars>>

\* lines 264-265: the first 200 characters do not mention PyObject
RejectByPrefix ==
    /\ dpc = "scan"
    /\ scan_i <= Len(fdefs)
    /\ ~PrefixMentions(FuncText(fdefs[scan_i]))
    /\ scan_i' = scan_i + 1
    /\ UNCHANGED <<fdefs, py_c_functions, dpc>>
    /\ UNCHANGED <<trackVars, mergeVars, resolveVars, registryVars, collectVars, buildVars>>

\* lines 269-277 and 239-249: the declarator is looked up, the parameter list
\* checked and the function collected when the check says so
CheckSignature ==
    /\ dpc = "scan"
    /\ scan_i <= Len(fdefs)
    /\ PrefixMentions(FuncText(fdefs[scan_i]))
    /\ py_c_functions' = IF IsPythonCApiFunction(fdefs[scan_i])
                          THEN Append(py_c_functions, fdefs[scan_i].name)
                          ELSE py_c_functions
    /\ scan_i' = scan_i + 1
    /\ UNCHANGED <<fdefs, dpc>>
    /\ UNCHANGED <<trackVars, mergeVars, resolveVars, registryVars, collectVars, buildVars>>

\* line 251
DetectReturn ==
    /\ dpc = "scan"
    /\ scan_i = Len(fdefs) + 1
    /\ Len(fdefs) >= 1
    /\ dpc' = "done"
    /\ UNCHANGED <<fdefs, scan_i, py_c_functions>>
    /\ UNCHANGED <<trackVars, mergeVars, resolveVars, registryVars, collectVars, buildVars>>

NextDetect == VisitFunction \/ RejectByPrefix \/ CheckSignature \/ DetectReturn

SpecDetect == InitDetect /\ [][NextDetect]_vars

----------------------------------------------------------------------------
(* Properties of the detector *)

Flagged(f) == \E k \in 1..Len(py_c_functions) : py_c_functions[k] = f.name

ReturnTypeMentions(f) == Mentions(f.rtype)

TwoInParameters(f) == Cardinality({k \in 1..Len(f.params) : Mentions(f.params[k])}) >= 2

\* C21: a function is flagged exactly when its declared return type mentions
\* the foreign-object type and its parameter list holds at least two
\* occurrences of that type; in particular a function whose return type does
\* not mention it is never flagged.
C21_FlaggedIffSignature ==
    dpc = "done" =>
        \A i \in 1..Len(fdefs) :
            Flagged(fdefs[i]) <=> (ReturnTypeMentions(fdefs[i]) /\ TwoInParameters(fdefs[i]))

----------------------------------------------------------------------------
(* The native-side graph (c_parser.py, build_python_related_call_graph)    *)

MaxMethods == 2

MaxSites == 2

BuildFunctions == {"c_add", "c_run", "helper"}

BuildPyNames == {"add", "run"}

\* python_call_extractor.py:156-162
FunctionCallApis ==
    {"PyObject_CallObject", "PyObject_Call", "PyObject_CallFunction",
     "PyObject_CallMethod", "PyObject_CallFunctionObjArgs"}

\* python_call_extractor.py:164-170
LookupApis ==
    {"PyDict_GetItemString", "PyObject_GetAttrString", "PyModule_GetDict",
     "PyImport_AddModule"}

\* python_call_extractor.py:172-178
ArgumentApis ==
    {"Py_BuildValue", "PyTuple_New", "PyTuple_SetItem", "PyList_New", "PyList_SetItem"}

\* the interpreter API calls of the input files
SiteApis == {"PyObject_CallObject", "PyObject_CallMethod", "PyDict_GetItemString"}

\* a call_expression on the interpreter API: the function that holds it, the
\* API called and the name the callee was looked up under
ApiSites == [caller : BuildFunctions, api : SiteApis, function_name : {"cb"}]

\* the method tables of the file: entries {"python_name", c_function, ...}
MethodLists == UNION {[1..n -> [python_name : BuildPyNames, c_function : {"c_add", "c_run"}]]
                        : n \in 0..MaxMethods}

\* the facts of one source file
BuildSources ==
    [methods : MethodLists,
     sites : UNION {[1..n -> ApiSites] : n \in 0..MaxSites},
     native_calls : SubsetsUpTo(BuildFunctions \X BuildFunctions, 1)]

\* c_parser.py:313-317: registered_c_functions[c_func] = py_name, later entries
\* overwrite earlier ones
RECURSIVE RegisteredOf(_, _, _)
RegisteredOf(methods, i, d) ==
    IF i > Len(methods) THEN d
    ELSE RegisteredOf(methods, i + 1, Put(d, methods[i].c_function, methods[i].python_name))

\* python_call_extractor.py:36-62: the call texts by kind of API, in traversal order
SnippetsOf(sites, apis) == SelectSeq(sites, LAMBDA s : s.api \in apis)

RawCodeSnippets(sites) ==
    [function_calls |-> SnippetsOf(sites, FunctionCallApis),
     function_lookup |-> SnippetsOf(sites, LookupApis \ FunctionCallApis),
     argument_building |-> SnippetsOf(sites, ArgumentApis \ (LookupApis \cup FunctionCallApis))]

\* python_call_extractor.py:64-75: only the PyObject_CallObject calls are parsed
ParsePythonCalls(snippets) ==
    SelectSeq(snippets.function_calls, LAMBDA s : s.api = "PyObject_CallObject")

\* python_call_extractor.py:14-34: the dict returned by extract_python_calls_from_ast
ExtractPythonCallsFromAst(sites) ==
    [raw_code_snippets |-> RawCodeSnippets(sites),
     parsed_calls |-> ParsePythonCalls(RawCodeSnippets(sites))]

\* c_parser.py:325-348: a key for every related function, and the native calls
\* between two related functions
RelatedGraph(related, native_calls) ==
    GraphOf(related, {e \in native_calls : e[1] \in related /\ e[2] \in related})

\* ---- the build as a state machine ----
InitBuild ==
    /\ source \in BuildSources
    /\ registered_c_functions = <<>>
    /\ call_info = <<>>
    /\ python_related_functions = {}
    /\ call_graph = <<>>
    /\ build_raised = "none"
    /\ bpc = "registrations"
    /\ TrackIdle
    /\ MergeIdle
    /\ ResolveIdle
    /\ RegistryIdle
    /\ DetectIdle
    /\ CollectIdle

\* c_parser.py:310-317
ReadRegistrations ==
    /\ bpc = "registrations"
    /\ registered_c_functions' = RegisteredOf(source.methods, 1, <<>>)
    /\ bpc' = "calls"
    /\ UNCHANGED <<source, call_info, python_related_functions, call_graph, build_raised>>
    /\ UNCHANGED <<trackVars, mergeVars, resolveVars, registryVars, detectVars, collectVars>>

\* c_parser.py:320
ExtractPythonCalls ==
    /\ bpc = "calls"
    /\ call_info' = ExtractPythonCallsFromAst(source.sites)
    /\ bpc' = "related"
    /\ UNCHANGED <<source, registered_c_functions, python_related_functions, call_graph,
                   build_raised>>
    /\ UNCHANGED <<trackVars, mergeVars, resolveVars, registryVars, detectVars, collectVars>>

\* c_parser.py:321-378: the subscript call_info['functions_with_calls'] raises
\* KeyError when the dict has no such key; otherwise the node set and the
\* edges are built, and find_caller_for_python_call, which PythonCallExtractor
\* does not define, raises AttributeError at the first parsed call
BuildGraph ==
    /\ bpc = "related"
    /\ IF "functions_with_calls" \notin DOMAIN call_info
       THEN /\ build_raised' = "KeyError"
            /\ UNCHANGED <<python_related_functions, call_graph>>
       ELSE LET related == DOMAIN registered_c_functions
                               \cup call_info["functions_with_calls"]
            IN  /\ python_related_functions' = related
                /\ call_graph' = RelatedGraph(related, source.native_calls)
                /\ build_raised' = IF call_info["parsed_calls"] # <<>>
                                   THEN "AttributeError" ELSE "none"
    /\ bpc' = "done"
    /\ UNCHANGED <<source, registered_c_functions, call_info>>
    /\ UNCHANGED <<trackVars, mergeVars, resolveVars, registryVars, detectVars, collectVars>>

NextBuild == ReadRegistrations \/ ExtractPythonCalls \/ BuildGraph

SpecBuild == InitBuild /\ [][NextBuild]_vars

----------------------------------------------------------------------------
(* Properties of the native-side graph *)

RegisteredNative == {source.methods[i].c_function : i \in 1..Len(source.methods)}

HoldsForeignCall ==
    {source.sites[i].caller : i \in {k \in 1..Len(source.sites) :
                                        source.sites[k].api \in FunctionCallApis}}

\* C22: the native-side graph built for merging has as its native nodes
\* exactly the registered native functions united with the native functions
\* that hold at least one foreign call, and it keeps a native-to-native edge
\* only when caller and callee both belong to that set.
C22_RelatedNodesAndEdges ==
    bpc = "done" =>
        /\ build_raised = "none"
        /\ python_related_functions = RegisteredNative \cup HoldsForeignCall
        /\ DOMAIN call_graph = python_related_functions
        /\ \A f \in DOMAIN call_graph : \A g \in call_graph[f] \cap BuildFunctions :
               /\ g \in python_related_functions
               /\ <<f, g>> \in source.native_calls

----------------------------------------------------------------------------
(* The call collection (c_parser.py and python_parser.py,                  *)
(* _extract_function_calls)                                                *)

MaxNodes == 4

\* the kinds of syntax node the traversal tells apart: a function definition
\* whose name is found, one whose name is not found, a call, anything else
NodeKinds == {"def_f", "def_g", "def_unnamed", "call", "other"}

\* _get_function_name of a function_definition node
FunctionNameOf(kind) ==
    IF kind = "def_f" THEN Some("f")
    ELSE IF kind = "def_g" THEN Some("g")
    ELSE None

IsDefinition(kind) == kind \in {"def_f", "def_g", "def_unnamed"}

\* _get_called_function_name of the call node n
CalleeNames == <<"h1", "h2", "h3", "h4", "h5">>

\* n is i or an ancestor of i under the parent map p
RECURSIVE OnPathToRoot(_, _, _)
OnPathToRoot(p, i, n) ==
    IF i = n THEN TRUE ELSE IF i = 0 THEN FALSE ELSE OnPathToRoot(p, p[i], n)

\* syntax trees: node 0 is the root and the nodes are numbered in the order
\* the traversal reaches them, so the parent of node i is node i - 1 or one
\* of its ancestors
Trees ==
    UNION {[parent : {p \in [1..n -> 0..n] :
                        \A i \in 1..n : p[i] < i /\ OnPathToRoot(p, i - 1, p[i])},
            kind : [1..n -> NodeKinds]] : n \in 1..MaxNodes}

\* node.children
RECURSIVE ChildrenFrom(_, _, _)
ChildrenFrom(t, n, i) ==
    IF i > Len(t.parent) THEN <<>>
    ELSE (IF t.parent[i] = n THEN <<i>> ELSE <<>>) \o ChildrenFrom(t, n, i + 1)

Children(t, n) == ChildrenFrom(t, n, 1)

KindOf(t, n) == IF n = 0 THEN "other" ELSE t.kind[n]

\* an activation of traverse(node, parent_function), about to visit its
\* child number next
Frame(n, pf) == [node |-> n, parent_function |-> pf, next |-> 1]

Top(s) == s[Len(s)]

Pop(s) == SubSeq(s, 1, Len(s) - 1)

\* the caller's frame moves on to its next child
Advance(s) == [s EXCEPT ![Len(s)].next = @ + 1]

HasNextChild(t, fr) == fr.next <= Len(Children(t, fr.node))

NextChild(t, fr) == Children(t, fr.node)[fr.next]

\* line 170 (python_parser.py line 123): the context on leaving a named definition
ContextKept(parent_function, name) == Some(name)

ContextAfterDefinition(parent_function, name) == parent_function

\* ---- the traversal as a state machine ----
InitCollect ==
    /\ tree \in Trees
    /\ frames = <<Frame(0, None)>>
    /\ current_function = None
    /\ calls = <<>>
    /\ cpc = "traverse"
    /\ TrackIdle
    /\ MergeIdle
    /\ ResolveIdle
    /\ RegistryIdle
    /\ DetectIdle
    /\ BuildIdle

\* lines 163-168: traverse is called on a function definition whose name is
\* found; the definition becomes the current function
EnterDefinition ==
    /\ cpc = "traverse"
    /\ frames # <<>>
    /\ HasNextChild(tree, Top(frames))
    /\ LET n == NextChild(tree, Top(frames))
       IN  /\ IsDefinition(KindOf(tree, n))
           /\ FunctionNameOf(KindOf(tree, n)) # None
           /\ frames' = Append(Advance(frames), Frame(n, current_function))
           /\ current_function' = FunctionNameOf(KindOf(tree, n))
    /\ UNCHANGED <<tree, calls, cpc>>
    /\ UNCHANGED <<trackVars, mergeVars, resolveVars, registryVars, detectVars, buildVars>>

\* lines 163-165, 171: a function definition whose name is not found is left
\* at once, its children unvisited
SkipUnnamedDefinition ==
    /\ cpc = "traverse"
    /\ frames # <<>>
    /\ HasNextChild(tree, Top(frames))
    /\ LET n == NextChild(tree, Top(frames))
       IN  /\ IsDefinition(KindOf(tree, n))
           /\ FunctionNameOf(KindOf(tree, n)) = None
           /\ frames' = Advance(frames)
    /\ UNCHANGED <<tree, current_function, calls, cpc>>
    /\ UNCHANGED <<trackVars, mergeVars, resolveVars, registryVars, detectVars, buildVars>>

\* lines 174-177: a call is recorded when there is a current function
VisitCall ==
    /\ cpc = "traverse"
    /\ frames # <<>>
    /\ HasNextChild(tree, Top(frames))
    /\ LET n == NextChild(tree, Top(frames))
       IN  /\ KindOf(tree, n) = "call"
           /\ calls' = IF current_function # None
                       THEN Append(calls, <<current_function[1], CalleeNames[n]>>)
                       ELSE calls
           /\ frames' = Append(Advance(frames), Frame(n, current_function))
    /\ UNCHANGED <<tree, current_function, cpc>>
    /\ UNCHANGED <<trackVars, mergeVars, resolveVars, registryVars, detectVars, buildVars>>

\* lines 179-181: any other node is entered for its children
VisitOther ==
    /\ cpc = "traverse"
    /\ frames # <<>>
    /\ HasNextChild(tree, Top(frames))
    /\ LET n == NextChild(tree, Top(frames))
       IN  /\ KindOf(tree, n) = "other"
           /\ frames' = Append(Advance(frames), Frame(n, current_function))
    /\ UNCHANGED <<tree, current_function, calls, cpc>>
    /\ UNCHANGED <<trackVars, mergeVars, resolveVars, registryVars, detectVars, buildVars>>

\* lines 170-171: the children of a named definition are done; the context is
\* set to the parent_function argument and traverse returns
LeaveDefinition ==
    /\ cpc = "traverse"
    /\ frames # <<>>
    /\ ~HasNextChild(tree, Top(frames))
    /\ IsDefinition(KindOf(tree, Top(frames).node))
    /\ current_function' = ContextAfterDefinition(Top(frames).parent_function,
                                                  FunctionNameOf(KindOf(tree, Top(frames).node))[1])
    /\ frames' = Pop(frames)
    /\ UNCHANGED <<tree, calls, cpc>>
    /\ UNCHANGED <<trackVars, mergeVars, resolveVars, registryVars, detectVars, buildVars>>

\* lines 180-181: the children of another node are done; traverse returns
LeaveNode ==
    /\ cpc = "traverse"
    /\ frames # <<>>
    /\ ~HasNextChild(tree, Top(frames))
    /\ ~IsDefinition(KindOf(tree, Top(frames).node))
    /\ frames' = Pop(frames)
    /\ UNCHANGED <<tree, current_function, calls, cpc>>
    /\ UNCHANGED <<trackVars, mergeVars, resolveVars, registryVars, detectVars, buildVars>>

\* lines 183-184: traverse(node) has returned
CollectReturn ==
    /\ cpc = "traverse"
    /\ frames = <<>>
    /\ cpc' = "done"
    /\ UNCHANGED <<tree, frames, current_function, calls>>
    /\ UNCHANGED <<trackVars, mergeVars, resolveVars, registryVars, detectVars, buildVars>>

NextCollect ==
    \/ EnterDefinition
    \/ SkipUnnamedDefinition
    \/ VisitCall
    \/ VisitOther
    \/ LeaveDefinition
    \/ LeaveNode
    \/ CollectReturn

SpecCollect == InitCollect /\ [][NextCollect]_vars

----------------------------------------------------------------------------
(* Properties of the call collection *)

\* the innermost function definition with a name among the proper ancestors of n
RECURSIVE InnermostNamed(_, _)
InnermostNamed(t, n) ==
    IF n = 0 THEN None
    ELSE LET p == t.parent[n]
         IN  IF FunctionNameOf(KindOf(t, p)) # None THEN FunctionNameOf(KindOf(t, p))
             ELSE InnermostNamed(t, p)

\* the function a node's own children belong to
ContextOf(t, n) ==
    IF FunctionNameOf(KindOf(t, n)) # None THEN FunctionNameOf(KindOf(t, n))
    ELSE InnermostNamed(t, n)

CallNodeOf(callee) == CHOOSE n \in 1..Len(CalleeNames) : CalleeNames[n] = callee

\* C23: the current-function context behaves as a stack: every emitted edge
\* has as caller the innermost named function definition enclosing the call,
\* leaving a nested definition restores the enclosing function, a call
\* outside any function emits no edge, and the context is empty when the
\* traversal ends.
C23_ContextIsStack ==
    /\ \A k \in 1..Len(calls) :
           InnermostNamed(tree, CallNodeOf(calls[k][2])) = Some(calls[k][1])
    /\ (cpc = "traverse" /\ frames # <<>>) =>
           current_function = ContextOf(tree, Top(frames).node)
    /\ (cpc = "traverse" /\ frames = <<>>) => current_function = None
    /\ cpc = "done" => current_function = None

\* a finished traversal in which a function f holds a nested definition g
\* followed by a call, and the call was recorded with caller f
C23_Witness ==
    /\ cpc = "done"
    /\ \E i, j \in 1..Len(tree.parent) :
        /\ j < i
        /\ tree.kind[j] = "def_g"
        /\ tree.kind[i] = "call"
        /\ tree.parent[i] = tree.parent[j]
        /\ tree.parent[i] # 0
        /\ tree.kind[tree.parent[i]] = "def_f"
        /\ \E k \in 1..Len(calls) : calls[k] = <<"f", CalleeNames[i]>>

----------------------------------------------------------------------------
(* Properties of the two-phase run *)

\* the definition d of the input files holds a call on the allow list
HoldsAllowListedCall(d) ==
    \E k \in 1..Len(disk[d[1]].defs[d[2]].site) :
        CalledFunctionName(disk[d[1]].defs[d[2]].site[k]) \in PythonCallFuncs

\* the facts a dependency graph was built for
GraphBuiltFor == RangeOf(ddg_built)

\* C24: in a multi-file run the registry is complete before any function is
\* analyzed, a dependency graph is built for a function only if its pre-scan
\* found a call on the allow list, and a function without such a call gets no
\* dependency graph and no call site in the output.
C24_RegistryFirstGraphsOnDemand ==
    /\ (run = 1 /\ gpc \in {"open", "register"}) => (ddg_built = <<>> /\ all_calls = <<>>)
    /\ gpc \in {"analyze", "done"} =>
          /\ \A d \in InputDefs :
                 InputFact(d) \in FactsOf(started, disk[d[1]].defs[d[2]].name)
          /\ \A d \in InputDefs :
                 InputFact(d) \in GraphBuiltFor => HoldsAllowListedCall(d)
          /\ \A c \in 1..Len(all_calls) :
                 \E d \in InputDefs :
                     /\ HoldsAllowListedCall(d)
                     /\ InputFact(d) \in GraphBuiltFor
                     /\ all_calls[c].file = d[1]
                     /\ all_calls[c].containing_function = disk[d[1]].defs[d[2]].name
    /\ gpc = "done" =>
          \A d \in InputDefs : HoldsAllowListedCall(d) <=> InputFact(d) \in GraphBuiltFor

\* a finished run over two files in which one function holds a foreign call
\* and got a dependency graph, and another holds only other calls and got none
C24_Witness ==
    /\ gpc = "done"
    /\ Cardinality(RangeOf(file_paths)) = 2
    /\ \E d, e \in InputDefs :
          /\ d[1] # e[1]
          /\ HoldsAllowListedCall(d)
          /\ InputFact(d) \in GraphBuiltFor
          /\ disk[e[1]].defs[e[2]].site # <<>>
          /\ ~HoldsAllowListedCall(e)
          /\ InputFact(e) \notin GraphBuiltFor
          /\ \E c \in 1..Len(all_calls) : all_calls[c].file = d[1]

\* the orders in which n analyses can be run
OrdersOf(n) == {p \in [1..n -> 1..n] : \A i, j \in 1..n : p[i] = p[j] => i = j}

\* the analyses of the facts, one after the other, each on the registry the
\* one before it left
RECURSIVE AnalyzeAll(_, _, _)
AnalyzeAll(registry, facts, i) ==
    IF i > Len(facts) THEN <<>>
    ELSE IF FindPythonCallExpressions(facts[i].code.site) = <<>>
         THEN AnalyzeAll(registry, facts, i + 1)
         ELSE CallInfos(registry, facts[i])
                  \o AnalyzeAll(RegistryAfterAnalysis(registry, facts[i]), facts, i + 1)

\* the facts in the order the run analyzes them
AnalysisOrder == InRegistryOrder(started, AllFacts(parsed_files, 1), 1)

----------------------------------------------------------------------------
(* The slice as a function of the statement order                          *)
(* (py_call_extractor.py, _extract_related_statements)                     *)

\* lines 252-276: the for loop over ddg.nodes from position i, on the loop
\* state [tracked, added, ctx, changed]
RECURSIVE PassFrom(_, _, _)
PassFrom(ns, i, st) ==
    IF i > Len(ns) THEN st
    ELSE IF ns[i].line \in st.added THEN PassFrom(ns, i + 1, st)
    ELSE IF ~Related(AllVarsOf(ns[i]), st.tracked) THEN PassFrom(ns, i + 1, st)
    ELSE LET grown == UpdateTracked(st.tracked, AllVarsOf(ns[i]))
         IN  PassFrom(ns, i + 1,
                      [tracked |-> grown,
                       added   |-> MarkVisited(st.added, ns[i].line),
                       ctx     |-> Append(st.ctx, ContextEntry(ns, i)),
                       changed |-> st.changed \/ Cardinality(grown) > Cardinality(st.tracked)])

\* lines 248-276: `while changed`
RECURSIVE ExpandFrom(_, _)
ExpandFrom(ns, st) ==
    IF st.changed THEN ExpandFrom(ns, PassFrom(ns, 1, [st EXCEPT !.changed = FALSE]))
    ELSE st

\* _extract_related_statements(ddg, initial_vars)
ExtractRelatedStatements(ns, seed) ==
    SortByLine(ExpandFrom(ns, [tracked |-> seed, added |-> {}, ctx |-> <<>>,
                               changed |-> TRUE]).ctx)

\* the statements of a slice, without their position in ddg.nodes
StatementsOf(ctx) ==
    {[line |-> ctx[k].line, defs |-> ctx[k].defs, uses |-> ctx[k].uses] : k \in 1..Len(ctx)}

\* the statement list enumerated in the order p
Reordered(ns, p) == [i \in 1..Len(ns) |-> ns[p[i]]]

\* the operator computes what the loop of the state machine returns
SliceAsComputed ==
    (tpc = "done" /\ entry = "direct") => context = ExtractRelatedStatements(nodes, initial_vars)

\* C26: the set of statements _extract_related_statements returns for a
\* dependency graph and a seed set is the same for every order in which the
\* statements of the graph are enumerated.
C26_OrderIndependent ==
    (tpc = "done" /\ entry = "direct") =>
        \A p \in OrdersOf(Len(nodes)) :
            StatementsOf(ExtractRelatedStatements(Reordered(nodes, p), initial_vars))
                = StatementsOf(context)

\* C27: every reported call site (of a function whose dependency graph holds
\* statements) has a slice that holds the statement of the call itself:
\* context_statements is not empty and has a statement at call_line.
C27_SliceHoldsCall ==
    (tpc = "done" /\ entry = "call_site" /\ nodes # <<>>) =>
        /\ context # <<>>
        /\ \E k \in 1..Len(context) : context[k].line = call_line

====
